---- MODULE Spec2Model ----
(***************************************************************************)
(* Model of melowntech/libservice:                                         *)
(*   - the PID file manager           (src/service/pidfile.cpp)            *)
(*   - the shared termination region and the signal/event core             *)
(*                                    (src/service/detail/signalhandler.cpp)*)
(*   - the control channel, server and client side                         *)
(*       (src/service/detail/signalhandler.cpp, detail/ctrlclient.hpp)     *)
(*   - the --signal management action (src/service/service.cpp)            *)
(***************************************************************************)
EXTENDS Integers, Sequences, FiniteSets, TLC

(***************************************************************************)
(* PID FILE MANAGER                                                        *)
(***************************************************************************)

\* Number of processes that call pidfile::allocate on the same path.
NPidProc == 3

\* The processes; process p has pid p (getpid() = p).
PidProc == 1 .. NPidProc

\* A pid recorded by an instance that is long gone and that none of the
\* processes of the model has.
DeadPid == NPidProc + 1

\* Content of a pid file that fscanf("%d") cannot parse (empty or garbage).
NoPid == 0

\* One inode for a file left behind before the model starts, and one for
\* every open(O_CREAT | O_EXCL) that can succeed (one per allocate call).
Inode == 1 .. (NPidProc + 1)

\* "No inode": the path does not exist / the descriptor is closed.
NoFile == 0

\* The processes of a start-up race: two services started at once.
Racers == {1, 2}

VARIABLES
    path,       \* the inode the pid file path names, or NoFile
    made,       \* number of inodes created so far
    content,    \* content[i]: the pid written into inode i, or NoPid
    lock,       \* lock[i]: the process holding the fcntl write lock, or 0
    apc,        \* apc[p]: where process p is inside allocate()
    fd,         \* fd[p]: File::fd of p's allocate(), as the inode it is open on
    pid,        \* pid[p]: the local `pid' that fscanf filled in
    liveAtStart,\* history: the processes that owned the pid file (had
                \* returned from allocate and were alive) when p called it
    solo,       \* history: no other allocate() overlapped p's call
    verdict     \* history: what p's allocate() found: "created" (no file),
                \* or an existing file "unparsable", holding its "own" pid,
                \* "unlocked" (the lock was taken) or "locked"; else "none"

pidVars == <<path, made, content, lock, apc, fd, pid, liveAtStart, solo,
             verdict>>

(***************************************************************************)
(* SHARED TERMINATION REGION AND SIGNAL/EVENT CORE                         *)
(***************************************************************************)

\* SignalHandler::mainPid_: the pid of the process that constructed the
\* handler.
mainPid == 1

\* The pid of the worker the main process forks.
workerPid == 2

\* The pid of a process that does not share the region.
otherPid == 3

\* The processes of the service.
SvcProc == {mainPid, workerPid}

\* The pids a caller of globalTerminate can name.
Pids == SvcProc \cup {otherPid}

\* Number of pid slots of the terminator set in the model (the code has 32).
TerminatorSize == 2

Slot == 1 .. TerminatorSize

\* Number of signals the processes receive in one run.
MaxSignals == 3

\* The signals of the signal set (SIGTERM, SIGINT, SIGHUP in the constructor,
\* SIGUSR1 added at its end).
Signals == {"SIGTERM", "SIGINT", "SIGHUP", "SIGUSR1"}

VARIABLES
    terminated,          \* shared: std::atomic_bool terminated_
    logRotateEvent,      \* shared: std::atomic<uint64_t> logRotateEvent_
    statEvent,           \* shared: std::atomic<uint64_t> statEvent_
    pids,                \* shared: Terminator::pids_, 0 is an empty slot
    procs,               \* the processes that exist
    thisTerminated,      \* thisTerminated[p]: thisTerminated_ of process p
    lastLogRotateEvent,  \* lastLogRotateEvent[p]
    lastStatEvent,       \* lastStatEvent[p]
    ppc,                 \* ppc[p]: "boot", "user" code, or inside "poll"
    result,              \* result[p]: what p's last process() returned
    rotated,             \* history: rotated[p][r] counts the owner_.logRotate()
                         \* calls of p that served log-rotate request r
    termDispatched,      \* history: processes that handled SIGTERM / SIGINT
    stopCalled,          \* history: Service::stop() has been called
    removed,             \* history: the pids whose latest globalTerminate call
                         \* was globalTerminate(false, pid)
    refused,             \* history: the pid of the latest
                         \* globalTerminate(true, pid) that met a set whose
                         \* slots all hold other pids, or 0
    sent                 \* number of signals handled so far

sigVars == <<terminated, logRotateEvent, statEvent, pids, procs,
             thisTerminated, lastLogRotateEvent, lastStatEvent, ppc, result,
             rotated, termDispatched, stopCalled, removed, refused, sent>>

(***************************************************************************)
(* CONTROL CHANNEL                                                         *)
(***************************************************************************)

\* Number of commands the client issues on its connection.
MaxCmds == 2

\* Number of bytes a socket buffers in each direction: a send takes what
\* fits, the rest of the data waits until the peer has read.
SockBuf == 3

\* A byte is a string that names it; these three are the bytes the protocol
\* gives a meaning to (EOT is the byte 0x04).
NL == "\n"
TAB == "\t"
EOT == "^D"

VARIABLES
    sock,            \* server: "listen", "pending" (connected, not yet
                     \* accepted), "open" or "closed" (CtrlConnection::socket_)
    input_,          \* server: CtrlConnection::input_
    output_,         \* server: CtrlConnection::output_
    closed_,         \* server: CtrlConnection::closed_
    readOp,          \* server: an async_read_until is outstanding
    wq,              \* server: the outstanding async_write operations, oldest
                     \* first; left = bytes not yet sent, n = bytes captured
    c2s,             \* bytes in flight from the client to the server
    s2c,             \* bytes in flight from the server to the client
    cstate,          \* client: "init", "idle", "writing", "reading", "failed"
    creq,            \* client: bytes of the request not yet written
    responseBuffer,  \* client: CtrlClient::responseBuffer
    cmds,            \* number of command() calls made
    served,          \* history: the latest request line served: its number,
                     \* whether it asks to close, the bytes lineRead wrote,
                     \* its verb, what the user's code did for it ("none" if
                     \* not called) and what it did for the request before
    answer           \* history: the latest command() call: its number and
                     \* what it returned or raised

ctrlVars == <<sock, input_, output_, closed_, readOp, wq, c2s, s2c, cstate,
              creq, responseBuffer, cmds, served, answer>>


(***************************************************************************)
(* THE --signal MANAGEMENT ACTION                                          *)
(***************************************************************************)

\* The process in the model that runs the service: it calls
\* pidfile::allocate when it starts and leaves the file behind when it ends.
svc == 2

\* A process that has nothing to do with the service; a pid file left
\* behind by an earlier run may hold its pid (pid reuse).
stray == 1

\* namespace Signal: stop, logrotate, stat and status (signal 0, a probe).
Signal_stop == "SIGTERM"
Signal_logrotate == "SIGHUP"
Signal_stat == "SIGUSR1"
Signal_status == "0"

\* `::usleep(100000)': the poll period; the clock of the model counts poll
\* periods, of which a second has ten.
TicksPerSecond == 10

\* The time, in poll periods, within which a service that stops promptly
\* has ended once its run loop has decided to stop.
StopLatency == 2

\* The most SIGTERMs the run loop of the service ignores before it stops.
MaxIgnored == 1

\* The texts after the slash of `--signal stop/...': seconds, or not a number.
TimeoutText == {"0", "1", "5", "x"}

\* The --signal arguments: a signal name, and a timeout text or "none" when
\* the argument has no slash.
Args == [signal : {"stop", "logrotate", "stat", "status", "restart"},
         timeout : {"none"} \cup TimeoutText]

VARIABLES
    sigDef,     \* the --signal argument of the running tool, or "none"
    def,        \* SigDef: signal, signo and timeout as parseSigDef filled them
    cpc,        \* where the tool is: "idle", "probe", "sleep", "done"
    firstProbe, \* waitForStop's `first'
    now,        \* utility::steady_clock::now(), in poll periods
    deadline,   \* waitForStop's `deadline'
    code,       \* the exit code of the tool, -1 while it runs
    denied,     \* what the tool's user may not do: "open" the pid file,
                \* "kill" the process it names, or "none"
    ignoring,   \* number of SIGTERMs the run loop of the service ignores
    stopAt,     \* the time the service's run loop decided to stop, or -1
    endedAt,    \* the time the service ended, or -1
    got,        \* got[p][s]: number of signals s delivered to process p
    probe1,     \* history: what the first call of pidfile::signal found
    probeN      \* history: what the latest call of pidfile::signal found

cliVars == <<sigDef, def, cpc, firstProbe, now, deadline, code, denied,
             ignoring, stopAt, endedAt, got, probe1, probeN>>

(***************************************************************************)
(* ScopedPidFile                                                           *)
(***************************************************************************)

\* The process that constructs a ScopedPidFile while another process may
\* hold the pid file.
waiter == 2

\* The process that may hold the pid file the waiter waits for.
holder == 1

\* The default checkPeriod is 500000 microseconds: the clock of the model
\* counts check periods, of which a second has two.
PeriodsPerSecond == 2

\* The longest waitTime, in seconds.
MaxWait == 2

VARIABLES
    spc,        \* where the constructor is: "none", "trying" (in allocate),
                \* "sleep", "held" (constructed), "timeout" (AlreadyRunning
                \* rethrown), "error" (another exception), "destroyed"
    waitTime,   \* the constructor's waitTime, in seconds
    end,        \* the constructor's `end', in seconds
    clock,      \* the time in check periods; time(nullptr) is its seconds
    began,      \* history: the clock when the constructor was called
    tries,      \* history: the number of allocate calls that have ended
    failedAt    \* history: the clock at the latest AlreadyRunning

scopedVars == <<spc, waitTime, end, clock, began, tries, failedAt>>

(***************************************************************************)
(* PipeNotifier                                                            *)
(***************************************************************************)

\* PIPE_BUF of <limits.h>, scaled down: the largest payload a notification
\* may have, and the size of master()'s buffer.
PIPE_BUF == 2

\* The number of packets the pipe takes before write() blocks.
PipeCap == 1

\* The number of slave() calls.
MaxSends == 3

\* The bytes of the payloads.
Byte == {"a", "b"}

\* The strings handed to slave(): a byte repeated, up to one byte more
\* than PIPE_BUF.
Payload == { [i \in 1 .. n |-> b] : n \in 0 .. (PIPE_BUF + 1), b \in Byte }

VARIABLES
    pipe,       \* the packets in the pipe (pipe2 with O_DIRECT), oldest first
    isRunning,  \* runnable_.isRunning()
    wpc,        \* the slave: "idle", "write" (in the loop), "threw"
    string,     \* slave()'s argument
    mpc,        \* the master: "idle", "read" (in the loop), "threw"
    sentLog,    \* history: the strings of the slave() calls that returned
    recvLog,    \* history: the strings the master() calls returned
    calls       \* history: the number of slave() calls

notifierVars == <<pipe, isRunning, wpc, string, mpc, sentLog, recvLog, calls>>

(***************************************************************************)
(* TCP CONTROL CLIENT (NetCtrlClient)                                      *)
(***************************************************************************)

\* Number of user commands issued on a constructed client.
MaxUser == 1

\* The component names and secrets of the ctrl URI.
Components == { <<"x">>, <<"y">> }
Secrets == { <<"p">>, <<"q">> }

\* What the peer may answer to a request, up to the EOT: nothing, a line,
\* two lines, an error line, and a line followed by an error line.
NetReplies ==
    { <<>>,
      <<"c", NL>>,
      <<"d", NL, "e", NL>>,
      <<"e", "r", "r", "o", "r", ":", " ", "n", "o", NL>>,
      <<"x", NL, "e", "r", "r", "o", "r", ":", " ", NL>> }

\* The user commands sent with NetCtrlClient::command.
UserCommands == { <<"s", "t", "a", "t">>, <<"h", "e", "l", "p">> }

\* What front() of an empty vector may yield where it does not crash.
Garbage == { <<>>, <<"c">> }

VARIABLES
    npc,             \* position of the caller: "new", "wait1", "have",
                     \* "wait2", "ready", "waitU", "failed", "crashed"
    component,       \* Detail::component
    secret,          \* Detail::secret
    challenge,       \* the local `challenge' of Detail's constructor
    raised,          \* what the constructor raised, "none" if nothing
    nsent,           \* history: the request lines written, in order
    nreplies         \* history: the replies read (up to the EOT), in order

netVars == <<npc, component, secret, challenge, raised, nsent, nreplies>>

(***************************************************************************)
(* LIFECYCLE DRIVER (Service::operator())                                  *)
(***************************************************************************)

\* The instance that was started first is process `holder' of the pid file
\* manager; the service whose start is followed is process `svc' there and
\* the main process of the signal/event core.
EXIT_SUCCESS == 0
EXIT_FAILURE == 1

\* The processes that hold descriptors of the notifier pipes.
intermediate == "intermediate"
daemon == "daemon"

VARIABLES
    dpc,                 \* where the process that becomes the service is in
                         \* operator(): "configure", "fork1", "fork2",
                         \* "allocate", "handler", "boot", "start" (inside
                         \* start()), "started", "polling" (inside
                         \* isRunning()), "finish", "run" (inside run()),
                         \* "destroy", "stopping", "return", "exited", or
                         \* "none" (the second fork failed)
    daemonize,           \* the local `daemonize'
    exitCode,            \* what operator() returns, -1 before
    cleanup,             \* the local `cleanup': "empty", "held", "destroyed"
    handling,            \* signal wait and control acceptor: "off", "on",
                         \* "stopped"
    starter,             \* the starter process: "none", "waiting", "exited"
    starterCode,         \* its exit status, -1 before
    inter,               \* the intermediate process: "none", "forking",
                         \* "waiting", "exited"
    interCode,           \* its exit status, -1 before
    n1w,                 \* the processes holding notifier1[1] open
    n2w,                 \* the processes holding notifier2[1] open
    daemonizeFinishRun,  \* the global daemonizeFinishRun
    reused,              \* the first instance's pid belongs to another,
                         \* unrelated process
    hook,                \* history: what preConfigHook's pidfile::signal
                         \* returned and the state of the first instance
                         \* then: "live" (owns the pid file), "stopped", or
                         \* "none"
    termAtReturn,        \* history: a termination request had reached the
                         \* process's flags when start() returned
    trace                \* history: "start" (start() called), "returned",
                         \* "run" (run() called), "cleanup" (handle
                         \* destroyed), "stop" (SignalHandler::stop()), in
                         \* the order they happened

driverVars == <<dpc, daemonize, exitCode, cleanup, handling, reused, hook,
                termAtReturn, trace>>

daemonVars == <<starter, starterCode, inter, interCode, n1w, n2w,
                daemonizeFinishRun>>

lifeVars == <<driverVars, daemonVars>>

(***************************************************************************)
(* PID FILE MANAGER: failing system calls                                  *)
(***************************************************************************)

VARIABLES
    before      \* history: before[p] is the inode the path named when p
                \* called allocate(), or NoFile

faultVars == <<before>>

(***************************************************************************)
(* SIGNAL / EVENT CORE: statistics requests                                *)
(***************************************************************************)

VARIABLES
    processStat     \* history: processStat[p] counts the owner_.processStat()
                    \* calls made in process p

statVars == <<processStat>>

(***************************************************************************)
(* CONTROL CHANNEL after fork()                                            *)
(***************************************************************************)

VARIABLES
    ctrl_,      \* ctrl_[p]: process p's copy of the acceptor is open
    childCon,   \* the worker's copy of the CtrlConnection that existed at
                \* the fork: its socket ("none" or "open"), whether its
                \* async_read_until is outstanding, its input_, and the
                \* state of the worker's copy of the async_accept ("none",
                \* "aborted": its handler is queued with operation_aborted)
    childDid    \* history: what the worker has done on the control channel

forkVars == <<ctrl_, childCon, childDid>>

(***************************************************************************)
(* CONTROL CHANNEL: the acceptor and its connections                       *)
(***************************************************************************)

\* Number of clients that connect to the control socket.
MaxCons == 2

Con == 1 .. MaxCons

VARIABLES
    hstate,     \* the SignalHandler is "constructed", "started" or "stopped"
    accepts,    \* number of async_accept operations outstanding on ctrl_
    aborted,    \* number of accept handlers queued with operation_aborted
    failures,   \* number of accepts that have failed with another error
    con         \* con[c]: client c has not connected ("none"), waits in the
                \* listen queue ("queued"), or its CtrlConnection has a read
                \* outstanding ("reading"), a read and a write ("both"), a
                \* write only ("writing"), or no operation left and is
                \* destroyed ("gone"); "refused" if it met a closed acceptor

acceptVars == <<hstate, accepts, aborted, failures, con>>

(***************************************************************************)
(* CONTROL CHANNEL: the bytes on the wire                                  *)
(***************************************************************************)

VARIABLES
    wire,       \* history: every byte the server has sent on the connection
    blocks,     \* history: the response blocks of the requests served, in
                \* the order of the requests
    overlap     \* history: a request was served while an async_write of an
                \* earlier block was outstanding

orderVars == <<wire, blocks, overlap>>

(***************************************************************************)
(* LIFECYCLE DRIVER: the helpers of Service::operator() and their order    *)
(***************************************************************************)

VARIABLES
    step,       \* where operator() is: the helper or operation it is about
                \* to run, "inStart" / "inRun" inside the user's start() and
                \* run(), "returned", or "escaped" (an exception left it)
    wanted,     \* the configuration: daemonize, pidfile (a path is given)
    events,     \* history: "daemonize", "pidfile", "core" (SignalHandler
                \* made), "persona", "register" (globalTerminate(true)),
                \* "start", "run", in the order they happened
    returns,    \* what operator() returned, -1 before
    raisedBy,   \* history: the helper that raised immediate_exit, or "none"
    raisedCode  \* history: the code it raised, -1 if none

startVars == <<step, wanted, events, returns, raisedBy, raisedCode>>

lastVars == <<faultVars, statVars, forkVars, acceptVars, orderVars, startVars>>

lateVars == <<netVars, lifeVars, lastVars>>

moreVars == <<scopedVars, notifierVars, lateVars>>

vars == <<pidVars, sigVars, ctrlVars, cliVars, moreVars>>

\* Positions inside allocate(); the names are the statements about to run.
InAllocate == {"open2", "scan", "trylock", "unlink1", "close", "unlink2",
               "open3", "lock", "write"}

\* The process has returned from allocate() and is alive.
Owner(p) == apc[p] = "done"

\* A pid file left by an earlier instance: absent, or an unlocked file with
\* unparsable content, the pid of a dead instance, or (pid reuse) the pid of
\* one of the processes (process 1: the processes are interchangeable).
InitPid ==
    /\ \E c \in {NoPid, DeadPid, 1}, present \in BOOLEAN :
          /\ path = (IF present THEN 1 ELSE NoFile)
          /\ made = (IF present THEN 1 ELSE 0)
          /\ content = [i \in Inode |-> IF present /\ i = 1 THEN c ELSE NoPid]
          /\ (~present => c = NoPid)
    /\ lock = [i \in Inode |-> 0]
    /\ apc = [p \in PidProc |-> "idle"]
    /\ fd = [p \in PidProc |-> NoFile]
    /\ pid = [p \in PidProc |-> -1]
    /\ liveAtStart = [p \in PidProc |-> {}]
    /\ solo = [p \in PidProc |-> TRUE]
    /\ verdict = [p \in PidProc |-> "none"]

\* fcntl(fd, F_SETLK, F_WRLCK): succeeds iff no other process holds a lock.
LockFree(i, p) == lock[i] \in {0, p}

\* close(fd): closing a descriptor drops every fcntl lock the process holds
\* on that file.
Released(i, p) == [lock EXCEPT ![i] = IF lock[i] = p THEN 0 ELSE lock[i]]

\* File::close() and File::~File().
FileClose(p) ==
    /\ lock' = (IF fd[p] = NoFile THEN lock ELSE Released(fd[p], p))
    /\ fd' = [fd EXCEPT ![p] = NoFile]

\* open(path, O_RDWR | O_CREAT | O_EXCL) on an absent path.
Create(p) ==
    /\ made < NPidProc + 1
    /\ made' = made + 1
    /\ path' = made + 1
    /\ fd' = [fd EXCEPT ![p] = made + 1]

\* allocate(), line 88: the exclusive create.
Open1(p) ==
    /\ apc[p] = "idle"
    /\ liveAtStart' = [liveAtStart EXCEPT ![p] = {q \in PidProc : Owner(q)}]
    /\ solo' = [q \in PidProc |->
                  IF q = p THEN \A r \in PidProc : apc[r] \notin InAllocate
                  ELSE IF apc[q] \in InAllocate THEN FALSE ELSE solo[q]]
    /\ IF path = NoFile
          THEN /\ Create(p)
               /\ apc' = [apc EXCEPT ![p] = "lock"]
          ELSE /\ apc' = [apc EXCEPT ![p] = "open2"]
               /\ UNCHANGED <<path, made, fd>>
    /\ verdict' = [verdict EXCEPT ![p] =
                      IF path = NoFile THEN "created" ELSE "none"]
    /\ UNCHANGED <<content, lock, pid>>

\* allocate(), lines 99-111: the file exists, open it read-write.
Open2(p) ==
    /\ apc[p] = "open2"
    /\ IF path = NoFile
          THEN /\ apc' = [apc EXCEPT ![p] = "syserr"]
               /\ UNCHANGED fd
          ELSE /\ apc' = [apc EXCEPT ![p] = "scan"]
               /\ fd' = [fd EXCEPT ![p] = path]
    /\ UNCHANGED <<path, made, content, lock, pid, liveAtStart, solo,
                   verdict>>

\* allocate(), lines 113-115: fscanf the pid; an unparsable file and a file
\* holding our own pid are stale without the lock being tried.
Scan(p) ==
    /\ apc[p] = "scan"
    /\ IF content[fd[p]] = NoPid
          THEN /\ apc' = [apc EXCEPT ![p] = "unlink1"]
               /\ UNCHANGED pid
          ELSE /\ pid' = [pid EXCEPT ![p] = content[fd[p]]]
               /\ apc' = [apc EXCEPT ![p] =
                            IF content[fd[p]] = p THEN "unlink1" ELSE "trylock"]
    /\ verdict' = [verdict EXCEPT ![p] =
                      IF content[fd[p]] = NoPid THEN "unparsable"
                      ELSE IF content[fd[p]] = p THEN "own" ELSE "none"]
    /\ UNCHANGED <<path, made, content, lock, fd, liveAtStart, solo>>

\* The lock test read the wrong way round: stale if the lock is refused.
TryLockInverted(p) ==
    /\ apc[p] = "trylock"
    /\ IF ~LockFree(fd[p], p)
          THEN /\ apc' = [apc EXCEPT ![p] = "unlink1"]
               /\ UNCHANGED <<fd, lock>>
          ELSE /\ apc' = [apc EXCEPT ![p] = "already"]
               /\ FileClose(p)
    /\ verdict' = [verdict EXCEPT ![p] =
                      IF LockFree(fd[p], p) THEN "unlocked" ELSE "locked"]
    /\ UNCHANGED <<path, made, content, pid, liveAtStart, solo>>

\* allocate(), lines 116 and 127-132: the file is stale if the lock can be
\* taken, else AlreadyRunning is thrown (and ~File closes the descriptor).
TryLock(p) ==
    /\ apc[p] = "trylock"
    /\ IF LockFree(fd[p], p)
          THEN /\ lock' = [lock EXCEPT ![fd[p]] = p]
               /\ apc' = [apc EXCEPT ![p] = "unlink1"]
               /\ UNCHANGED fd
          ELSE /\ apc' = [apc EXCEPT ![p] = "already"]
               /\ FileClose(p)
    /\ verdict' = [verdict EXCEPT ![p] =
                      IF LockFree(fd[p], p) THEN "unlocked" ELSE "locked"]
    /\ UNCHANGED <<path, made, content, pid, liveAtStart, solo>>

\* allocate(), lines 121-126: unlink the stale file; failure throws.
Unlink1(p) ==
    /\ apc[p] = "unlink1"
    /\ IF path = NoFile
          THEN /\ apc' = [apc EXCEPT ![p] = "syserr"]
               /\ FileClose(p)
               /\ UNCHANGED path
          ELSE /\ path' = NoFile
               /\ apc' = [apc EXCEPT ![p] = "close"]
               /\ UNCHANGED <<fd, lock>>
    /\ UNCHANGED <<made, content, pid, liveAtStart, solo,
                   verdict>>

\* allocate(), line 133: file.close().
Close(p) ==
    /\ apc[p] = "close"
    /\ FileClose(p)
    /\ apc' = [apc EXCEPT ![p] = "unlink2"]
    /\ UNCHANGED <<path, made, content, pid, liveAtStart, solo,
                   verdict>>

\* allocate(), line 135: the second, unchecked unlink.
Unlink2(p) ==
    /\ apc[p] = "unlink2"
    /\ path' = NoFile
    /\ apc' = [apc EXCEPT ![p] = "open3"]
    /\ UNCHANGED <<made, content, lock, fd, pid, liveAtStart, solo,
                   verdict>>

\* allocate(), lines 136-145: the second exclusive create; failure throws.
Open3(p) ==
    /\ apc[p] = "open3"
    /\ IF path = NoFile
          THEN /\ Create(p)
               /\ apc' = [apc EXCEPT ![p] = "lock"]
          ELSE /\ apc' = [apc EXCEPT ![p] = "syserr"]
               /\ UNCHANGED <<path, made, fd>>
    /\ UNCHANGED <<content, lock, pid, liveAtStart, solo,
                   verdict>>

\* allocate(), lines 148-153: lock the file just created; failure throws.
Lock(p) ==
    /\ apc[p] = "lock"
    /\ IF LockFree(fd[p], p)
          THEN /\ lock' = [lock EXCEPT ![fd[p]] = p]
               /\ apc' = [apc EXCEPT ![p] = "write"]
               /\ UNCHANGED fd
          ELSE /\ apc' = [apc EXCEPT ![p] = "syserr"]
               /\ FileClose(p)
    /\ UNCHANGED <<path, made, content, pid, liveAtStart, solo,
                   verdict>>

\* allocate(), lines 155-168: write our pid and keep descriptor and lock.
Write(p) ==
    /\ apc[p] = "write"
    /\ content' = [content EXCEPT ![fd[p]] = p]
    /\ apc' = [apc EXCEPT ![p] = "done"]
    /\ UNCHANGED <<path, made, lock, fd, pid, liveAtStart, solo,
                   verdict>>

\* A process that returned from allocate() ends: the kernel closes its
\* descriptors and drops its locks; the file stays where it is.  (A process
\* whose allocate() threw holds neither a descriptor nor a lock.)
Exit(p) ==
    /\ apc[p] = "done"
    /\ apc' = [apc EXCEPT ![p] = "exited"]
    /\ lock' = [i \in Inode |-> IF lock[i] = p THEN 0 ELSE lock[i]]
    /\ fd' = [fd EXCEPT ![p] = NoFile]
    /\ UNCHANGED <<path, made, content, pid, liveAtStart, solo,
                   verdict>>

allocate(p) ==
    \/ Open1(p) \/ Open2(p) \/ Scan(p) \/ TryLock(p) \/ Unlink1(p)
    \/ Close(p) \/ Unlink2(p) \/ Open3(p) \/ Lock(p) \/ Write(p)

(***************************************************************************)
(* Terminator, SignalHandler                                               *)
(***************************************************************************)

\* A log-rotate request is named by the value ++logRotateEvent_ gave it.
ReqId == 1 .. (MaxSignals + MaxCmds)

\* State after SignalHandler's constructor, in the main process.
InitSig ==
    /\ terminated = FALSE
    /\ logRotateEvent = 0
    /\ statEvent = 0
    /\ pids = [i \in Slot |-> 0]
    /\ procs = {mainPid}
    /\ thisTerminated = [p \in SvcProc |-> FALSE]
    /\ lastLogRotateEvent = [p \in SvcProc |-> 0]
    /\ lastStatEvent = [p \in SvcProc |-> 0]
    /\ ppc = [p \in SvcProc |-> IF p = mainPid THEN "boot" ELSE "none"]
    /\ result = [p \in SvcProc |-> "none"]
    /\ rotated = [p \in SvcProc |-> [r \in ReqId |-> 0]]
    /\ termDispatched = {}
    /\ stopCalled = FALSE
    /\ removed = {}
    /\ refused = 0
    /\ sent = 0

\* Terminator::find(pid): a slot holds pid.
find(p) == \E i \in Slot : pids[i] = p

\* `if (!pid) { pid = ::getpid(); }'
PidOrSelf(arg, p) == IF arg = 0 THEN p ELSE arg

\* Terminator::add without the look-up of the pid.
addNoFind(p) ==
    IF \E i \in Slot : pids[i] = 0
       THEN LET first == CHOOSE i \in Slot :
                            pids[i] = 0 /\ \A j \in Slot : j < i => pids[j] # 0
            IN  [pids EXCEPT ![first] = p]
       ELSE pids

\* Terminator::add: nothing if present, else the first empty slot, else
\* nothing (the set is full).
add(p) ==
    IF find(p) THEN pids
    ELSE IF \E i \in Slot : pids[i] = 0
         THEN LET first == CHOOSE i \in Slot :
                              pids[i] = 0 /\ \A j \in Slot : j < i => pids[j] # 0
              IN  [pids EXCEPT ![first] = p]
         ELSE pids

\* Terminator::remove: `auto p(find(pid)); if (p) { p = 0; }' resets the
\* local pointer p, not the slot *p: no slot changes.
remove(p) == pids

\* SignalHandler::globalTerminate(value, pid), called from user code.
globalTerminate(p, value, arg) ==
    /\ p \in procs
    /\ ppc[p] = "user"
    /\ pids' = (IF value THEN add(PidOrSelf(arg, p)) ELSE remove(PidOrSelf(arg, p)))
    /\ removed' = (IF value THEN removed \ {PidOrSelf(arg, p)}
                            ELSE removed \cup {PidOrSelf(arg, p)})
    /\ refused' = (IF value /\ \A i \in Slot :
                                    pids[i] \notin {0, PidOrSelf(arg, p)}
                       THEN PidOrSelf(arg, p) ELSE refused)
    /\ UNCHANGED <<terminated, logRotateEvent, statEvent, procs,
                   thisTerminated, lastLogRotateEvent, lastStatEvent, ppc,
                   result, rotated, termDispatched, stopCalled, sent>>

\* Service::operator(), lines 639-645: the main process registers itself as
\* a global terminator and starts the handlers before any user code runs.
Boot ==
    /\ ppc[mainPid] = "boot"
    /\ pids' = add(PidOrSelf(0, mainPid))
    /\ ppc' = [ppc EXCEPT ![mainPid] = "user"]
    /\ UNCHANGED <<terminated, logRotateEvent, statEvent, procs,
                   thisTerminated, lastLogRotateEvent, lastStatEvent,
                   result, rotated, termDispatched, stopCalled, removed, refused, sent>>

\* A faulty terminate() that leaves the shared flag alone.
terminateNothing == UNCHANGED terminated

\* SignalHandler::terminate().
terminate == terminated' = TRUE

\* Service::stop(), called from user code of any process.
stop(p) ==
    /\ p \in procs
    /\ ppc[p] = "user"
    /\ terminate
    /\ stopCalled' = TRUE
    /\ UNCHANGED <<logRotateEvent, statEvent, pids, removed, refused, procs, thisTerminated,
                   lastLogRotateEvent, lastStatEvent, ppc, result,
                   rotated, termDispatched, sent>>

\* fork() in user code: the child gets a copy of the process-local members
\* and shares the region.
Fork(p, c) ==
    /\ p \in procs
    /\ ppc[p] = "user"
    /\ c \notin procs
    /\ procs' = procs \cup {c}
    /\ thisTerminated' = [thisTerminated EXCEPT ![c] = thisTerminated[p]]
    /\ lastLogRotateEvent' = [lastLogRotateEvent EXCEPT ![c] = lastLogRotateEvent[p]]
    /\ lastStatEvent' = [lastStatEvent EXCEPT ![c] = lastStatEvent[p]]
    /\ rotated' = [rotated EXCEPT ![c] = rotated[p]]
    /\ ppc' = [ppc EXCEPT ![c] = "user"]
    /\ UNCHANGED <<terminated, logRotateEvent, statEvent, pids, removed, refused, result,
                   termDispatched, stopCalled, sent>>

\* SignalHandler::process(), line 155: ios_.poll() starts.
ProcessBegin(p) ==
    /\ p \in procs
    /\ ppc[p] = "user"
    /\ ppc' = [ppc EXCEPT ![p] = "poll"]
    /\ UNCHANGED <<terminated, logRotateEvent, statEvent, pids, removed, refused, procs,
                   thisTerminated, lastLogRotateEvent, lastStatEvent,
                   result, rotated, termDispatched, stopCalled, sent>>

\* A faulty markTerminated() that does not look into the terminator set.
markTerminatedAlways(p) ==
    /\ thisTerminated' = [thisTerminated EXCEPT ![p] = TRUE]
    /\ terminated' = TRUE

\* SignalHandler::markTerminated().
markTerminated(p) ==
    /\ thisTerminated' = [thisTerminated EXCEPT ![p] = TRUE]
    /\ terminated' = (IF find(p) THEN TRUE ELSE terminated)

\* SignalHandler::signal(e, signo), run by ios_.poll() of process p for a
\* signal signo the process has received.
signal(p, signo) ==
    /\ p \in procs
    /\ ppc[p] = "poll"
    /\ sent < MaxSignals
    /\ sent' = sent + 1
    /\ CASE signo \in {"SIGTERM", "SIGINT"} ->
              /\ markTerminated(p)
              /\ termDispatched' = termDispatched \cup {p}
              /\ UNCHANGED <<logRotateEvent, statEvent>>
         [] signo = "SIGHUP" ->
              /\ logRotateEvent' = logRotateEvent + 1
              /\ UNCHANGED <<terminated, thisTerminated, statEvent, termDispatched>>
         [] signo = "SIGUSR1" ->
              /\ statEvent' = statEvent + 1
              /\ UNCHANGED <<terminated, thisTerminated, logRotateEvent, termDispatched>>
    /\ UNCHANGED <<pids, removed, refused, procs, lastLogRotateEvent, lastStatEvent, ppc,
                   result, rotated, stopCalled>>

\* A faulty log-rotate check that forgets which value it has seen.
LogRotateCheckForgets(p) ==
    LET value == logRotateEvent IN
      IF value # lastLogRotateEvent[p]
         THEN /\ rotated' = [rotated EXCEPT ![p] =
                    [r \in ReqId |->
                        IF lastLogRotateEvent[p] < r /\ r <= value
                           THEN @[r] + 1 ELSE @[r]]]
              /\ UNCHANGED lastLogRotateEvent
         ELSE UNCHANGED <<rotated, lastLogRotateEvent>>

\* The log-rotate check of process(): owner_.logRotate() runs iff the counter
\* differs from the last value seen; it serves every request issued since.
LogRotateCheck(p) ==
    LET value == logRotateEvent IN
      IF value # lastLogRotateEvent[p]
         THEN /\ rotated' = [rotated EXCEPT ![p] =
                    [r \in ReqId |->
                        IF lastLogRotateEvent[p] < r /\ r <= value
                           THEN @[r] + 1 ELSE @[r]]]
              /\ lastLogRotateEvent' = [lastLogRotateEvent EXCEPT ![p] = value]
         ELSE UNCHANGED <<rotated, lastLogRotateEvent>>

\* A faulty statistics check that forgets which value it has seen.
StatCheckForgets(p) ==
    UNCHANGED lastStatEvent

\* A faulty statistics check that reacts in every process.
StatCheckAnyProcess(p) ==
    LET value == statEvent IN
      IF value # lastStatEvent[p]
         THEN lastStatEvent' = [lastStatEvent EXCEPT ![p] = value]
         ELSE UNCHANGED lastStatEvent

\* The statistics check of process(): only the main process reacts.
StatCheck(p) ==
    LET value == statEvent IN
      IF value # lastStatEvent[p] /\ p = mainPid
         THEN lastStatEvent' = [lastStatEvent EXCEPT ![p] = value]
         ELSE UNCHANGED lastStatEvent

\* A faulty result of process() that ignores the shared flag.
ProcessResultLocal(p) == thisTerminated[p]

\* What process() returns.
ProcessResult(p) == terminated \/ thisTerminated[p]

(***************************************************************************)
(* Texts of the control protocol                                           *)
(***************************************************************************)

\* The verbs lineRead and processCtrl compare cmd.cmd with.
V_logrotate ==
    <<"l", "o", "g", "r", "o", "t", "a", "t", "e">>
V_terminate ==
    <<"t", "e", "r", "m", "i", "n", "a", "t", "e">>
V_exit ==
    <<"e", "x", "i", "t">>
V_help ==
    <<"h", "e", "l", "p">>
V_stat ==
    <<"s", "t", "a", "t">>
V_monitor ==
    <<"m", "o", "n", "i", "t", "o", "r">>

\* lineRead's replies.
R_empty ==
    <<"e", "m", "p", "t", "y", " ", "c", "o", "m", "m", "a", "n", "d", " ",
      "r", "e", "c", "e", "i", "v", "e", "d", NL>>
R_logrotate ==
    <<"l", "o", "g", " ", "r", "o", "t", "a", "t", "i", "o", "n", " ", "s",
      "c", "h", "e", "d", "u", "l", "e", "d", NL>>
R_terminate ==
    <<"t", "e", "r", "m", "i", "n", "a", "t", "i", "o", "n", " ", "s", "c",
      "h", "e", "d", "u", "l", "e", "d", ",", " ", "b", "y", "e", NL>>
\* A faulty handler of the exception that writes nothing.
R_failedNothing == <<>>

R_failed ==
    <<"e", "r", "r", "o", "r", ":", " ", "f", "a", "i", "l", "e", "d", " ",
      "t", "o", " ", "e", "x", "e", "c", "u", "t", "e", " ", "c", "o", "m",
      "m", "a", "n", "d", NL>>

\* The help lines of lineRead and of processCtrl, each cut after its verb
\* (the description that follows the verb on the line is left out).
R_help ==
    <<"l", "o", "g", "r", "o", "t", "a", "t", "e", NL, "t", "e", "r", "m",
      "i", "n", "a", "t", "e", NL, "h", "e", "l", "p", NL>>
R_help_service ==
    <<"s", "t", "a", "t", NL, "m", "o", "n", "i", "t", "o", "r", NL>>

\* processMonitor's block with the values left empty.
R_monitor ==
    <<"I", "d", "e", "n", "t", "i", "t", "y", ":", " ", NL, "N", "a", "m",
      "e", ":", " ", NL, "V", "e", "r", "s", "i", "o", "n", ":", " ", NL,
      "P", "i", "d", ":", " ", NL, "P", "e", "r", "s", "o", "n", "a", ":",
      " ", NL, "U", "p", "-", "S", "i", "n", "c", "e", ":", " ", NL, "U",
      "p", "t", "i", "m", "e", ":", " ", NL>>

\* "error: command <" and "> not implemented\n" of processCtrl.
R_notimpl_head ==
    <<"e", "r", "r", "o", "r", ":", " ", "c", "o", "m", "m", "a", "n", "d",
      " ", "<">>
R_notimpl_tail ==
    <<">", " ", "n", "o", "t", " ", "i", "m", "p", "l", "e", "m", "e", "n",
      "t", "e", "d", NL>>

\* The prefix the client looks for.
ErrorPrefix ==
    <<"e", "r", "r", "o", "r", ":", " ">>

\* What the user's stat(), monitor() and ctrl() may write: nothing, a line,
\* lines with an empty one and an unterminated last one, and a line that
\* starts with the error prefix.  (No user text holds an EOT byte.)
OwnerTexts ==
    { <<>>,
      <<"o", "k", NL>>,
      <<"a", NL, NL, "b">>,
      <<"e", "r", "r", "o", "r", ":", " ", "n", "o", NL>> }

\* The request lines the client sends (without the newline).
Commands ==
    { <<>>,
      <<"h", "e", "l", "p">>,
      <<"l", "o", "g", "r", "o", "t", "a", "t", "e">>,
      <<"t", "e", "r", "m", "i", "n", "a", "t", "e">>,
      <<"e", "x", "i", "t">>,
      <<"s", "t", "a", "t">>,
      <<"!", "s", "t", "a", "t">>,
      <<"x">>,
      <<" ", "x", TAB, "a">> }

\* Command strings that hold a newline: the client sends several request
\* lines in one go (the last of them may be empty).
Batches ==
    { V_exit \o <<NL>> \o V_help,
      <<"!">> \o V_stat \o <<NL, "x">>,
      <<"x", NL>> \o V_exit,
      <<"x", NL, "!", "x", NL>> }

(***************************************************************************)
(* Control connection, server side (CtrlConnection) and client side        *)
(***************************************************************************)

Min(a, b) == IF a < b THEN a ELSE b
Take(s, k) == SubSeq(s, 1, k)
Drop(s, k) == SubSeq(s, k + 1, Len(s))
Has(s, b) == \E i \in 1 .. Len(s) : s[i] = b

\* Index of the first byte b of s (s holds one).
First(s, b) == CHOOSE i \in 1 .. Len(s) : s[i] = b /\ \A j \in 1 .. (i - 1) : s[j] # b

\* State after SignalHandler's constructor: the acceptor listens, nobody is
\* connected.
InitCtrl ==
    /\ sock = "listen"
    /\ input_ = <<>>
    /\ output_ = <<>>
    /\ closed_ = FALSE
    /\ readOp = FALSE
    /\ wq = <<>>
    /\ c2s = <<>>
    /\ s2c = <<>>
    /\ cstate = "init"
    /\ creq = <<>>
    /\ responseBuffer = <<>>
    /\ cmds = 0
    /\ served = [no |-> 0, closing |-> FALSE, bytes |-> <<>>, verb |-> <<>>,
                 owner |-> "none", after |-> "none"]
    /\ answer = [no |-> 0, kind |-> "none"]

\* utility::separated_values::split(line, " \t"): the runs of bytes other than
\* space and tab.
RECURSIVE SplitValues(_, _, _)
SplitValues(s, cur, acc) ==
    IF s = <<>>
       THEN IF cur = <<>> THEN acc ELSE Append(acc, cur)
       ELSE IF Head(s) \in {" ", TAB}
               THEN SplitValues(Tail(s), <<>>,
                                IF cur = <<>> THEN acc ELSE Append(acc, cur))
               ELSE SplitValues(Tail(s), Append(cur, Head(s)), acc)

split(line) == SplitValues(line, <<>>, <<>>)

\* What the user's code does when called: it writes `text' and then returns
\* true, returns false, or throws.
OwnerChoices ==
    [text : OwnerTexts, ret : {"true"}]
        \cup [text : {<<>>}, ret : {"false", "throw"}]
        \cup [text : {<<"o", "k", NL>>}, ret : {"throw"}]

\* A faulty processCtrl that says nothing when ctrl() returns false.
processCtrlSilent(cmd, o) ==
    IF cmd = V_help
       THEN [text |-> R_help_service \o o.text, thrown |-> o.ret = "throw"]
    ELSE IF cmd = V_monitor
       THEN [text |-> R_monitor \o o.text, thrown |-> o.ret = "throw"]
       ELSE [text |-> o.text, thrown |-> o.ret = "throw"]

\* Service::processCtrl(cmd, output) with the user's code doing o: the text
\* written and whether an exception leaves it.
processCtrl(cmd, o) ==
    IF cmd = V_help
       THEN [text |-> R_help_service \o o.text, thrown |-> o.ret = "throw"]
    ELSE IF cmd = V_stat
       THEN [text |-> o.text, thrown |-> o.ret = "throw"]
    ELSE IF cmd = V_monitor
       THEN [text |-> R_monitor \o o.text, thrown |-> o.ret = "throw"]
    ELSE IF o.ret = "false"
       THEN [text |-> o.text \o R_notimpl_head \o cmd \o R_notimpl_tail,
             thrown |-> FALSE]
       ELSE [text |-> o.text, thrown |-> o.ret = "throw"]

\* The body of CtrlConnection::lineRead between getline and async_write for
\* the tokens cmdValue: the bytes written to os, terminateBlock, the new
\* closed_, whether sh_.logRotate() / sh_.terminate() was called, the verb
\* dispatched (cmd.cmd) and what the user's code did if it was called.
Reply(cmdValue, o) ==
    IF cmdValue = <<>>
       THEN [text |-> R_empty, terminateBlock |-> TRUE, closed |-> closed_,
             logRotate |-> FALSE, terminate |-> FALSE,
             verb |-> <<>>, owner |-> "none"]
       ELSE
         LET bang  == Head(cmdValue) # <<>> /\ Head(Head(cmdValue)) = "!"
             front == IF bang THEN Tail(Head(cmdValue)) ELSE Head(cmdValue)
             pc    == processCtrl(front, o)
             catch(r) == IF r.thrown THEN r.text \o R_failed ELSE r.text
         IN
           IF front = V_logrotate
              THEN [text |-> R_logrotate, terminateBlock |-> ~bang,
                    closed |-> closed_ \/ bang,
                    logRotate |-> TRUE, terminate |-> FALSE,
                    verb |-> front, owner |-> "none"]
           ELSE IF front = V_terminate
              THEN [text |-> R_terminate, terminateBlock |-> ~bang,
                    closed |-> closed_ \/ bang,
                    logRotate |-> FALSE, terminate |-> TRUE,
                    verb |-> front, owner |-> "none"]
           ELSE IF front = V_exit
              THEN [text |-> <<>>, terminateBlock |-> FALSE, closed |-> TRUE,
                    logRotate |-> FALSE, terminate |-> FALSE,
                    verb |-> front, owner |-> "none"]
           ELSE IF front = V_help
              THEN [text |-> R_help \o catch(pc), terminateBlock |-> ~bang,
                    closed |-> closed_ \/ bang,
                    logRotate |-> FALSE, terminate |-> FALSE,
                    verb |-> front, owner |-> o.ret]
              ELSE [text |-> catch(pc), terminateBlock |-> ~bang,
                    closed |-> closed_ \/ bang,
                    logRotate |-> FALSE, terminate |-> FALSE,
                    verb |-> front, owner |-> o.ret]

\* A faulty end of block that writes the EOT whatever terminateBlock says.
BlockAlways(r) == r.text \o <<EOT>>

\* The bytes lineRead leaves in os for reply r: the text and, if
\* terminateBlock, the EOT.
Block(r) == r.text \o (IF r.terminateBlock THEN <<EOT>> ELSE <<>>)

\* Free room of the socket buffer towards the client / the server.
RoomS2C == SockBuf - Len(s2c)
RoomC2S == SockBuf - Len(c2s)

\* An async_write whose data is all sent waits for its handler.
WriteDone == wq # <<>> /\ Head(wq).left = <<>>

\* Some async_write has bytes left to send.
Unsent == \E i \in 1 .. Len(wq) : wq[i].left # <<>>
FirstUnsent == CHOOSE i \in 1 .. Len(wq) :
                  wq[i].left # <<>> /\ \A j \in 1 .. (i - 1) : wq[j].left = <<>>

\* SignalHandler::newCtrlConnection(e = success, con): startRead.
newCtrlConnection ==
    /\ ppc[mainPid] = "poll"
    /\ sock = "pending"
    /\ sock' = "open"
    /\ readOp' = TRUE
    /\ UNCHANGED <<input_, output_, closed_, wq, c2s, s2c, cstate, creq,
                   responseBuffer, cmds, served, answer>>
    /\ UNCHANGED sigVars

\* async_read_until, no newline buffered yet: the bytes that arrived are
\* read into input_.
ReadSome ==
    /\ ppc[mainPid] = "poll"
    /\ sock = "open" /\ readOp
    /\ ~Has(input_, NL)
    /\ c2s # <<>>
    /\ input_' = input_ \o c2s
    /\ c2s' = <<>>
    /\ UNCHANGED <<sock, output_, closed_, readOp, wq, s2c, cstate, creq,
                   responseBuffer, cmds, served, answer>>
    /\ UNCHANGED sigVars

\* The request asks to close the connection afterwards: its verb is exit or
\* starts with `!'.
Closing(cmd) ==
    cmd # <<>> /\ (Head(cmd) = V_exit
                     \/ (Head(cmd) # <<>> /\ Head(Head(cmd)) = "!"))

\* CtrlConnection::lineRead(e = success), the user's code doing o.
lineRead(o) ==
    /\ ppc[mainPid] = "poll"
    /\ sock = "open" /\ readOp
    /\ Has(input_, NL)
    /\ ~WriteDone
    /\ LET at   == First(input_, NL)
           line == Take(input_, at - 1)
           r    == Reply(split(line), o)
           out  == output_ \o Block(r)
           k    == IF Unsent THEN 0 ELSE Min(RoomS2C, Len(out))
       IN
         /\ input_' = Drop(input_, at)
         /\ output_' = out
         /\ closed_' = r.closed
         /\ s2c' = s2c \o Take(out, k)
         /\ wq' = Append(wq, [left |-> Drop(out, k), n |-> Len(out)])
         /\ readOp' = ~r.closed
         /\ logRotateEvent' = (IF r.logRotate THEN logRotateEvent + 1
                                              ELSE logRotateEvent)
         /\ IF r.terminate THEN terminate ELSE UNCHANGED terminated
         /\ served' = [no |-> served.no + 1, closing |-> Closing(split(line)),
                       bytes |-> Block(r), verb |-> r.verb, owner |-> r.owner,
                       after |-> served.owner]
    /\ UNCHANGED <<sock, c2s, cstate, creq, responseBuffer, cmds, answer>>
    /\ UNCHANGED <<statEvent, pids, removed, refused, procs, thisTerminated, lastLogRotateEvent,
                   lastStatEvent, ppc, result, rotated, termDispatched,
                   stopCalled, sent>>

\* CtrlConnection::lineRead(e = eof): the client has gone; nothing more is
\* scheduled and the connection is dropped.
lineReadEof ==
    /\ ppc[mainPid] = "poll"
    /\ sock = "open" /\ readOp
    /\ ~Has(input_, NL)
    /\ c2s = <<>> /\ cstate = "gone"
    /\ readOp' = FALSE
    /\ sock' = (IF wq = <<>> THEN "closed" ELSE sock)
    /\ UNCHANGED <<input_, output_, closed_, wq, c2s, s2c, cstate, creq,
                   responseBuffer, cmds, served, answer>>
    /\ UNCHANGED sigVars

\* async_write, the socket has room again: the oldest unsent data goes on.
WriteSome ==
    /\ ppc[mainPid] = "poll"
    /\ sock = "open"
    /\ Unsent
    /\ RoomS2C > 0
    /\ LET i == FirstUnsent
           k == Min(RoomS2C, Len(wq[i].left))
       IN /\ s2c' = s2c \o Take(wq[i].left, k)
          /\ wq' = [wq EXCEPT ![i].left = Drop(@, k)]
    /\ UNCHANGED <<sock, input_, output_, closed_, readOp, c2s, cstate, creq,
                   responseBuffer, cmds, served, answer>>
    /\ UNCHANGED sigVars

\* A faulty handleWrite that never closes the socket.
handleWriteKeepsOpen ==
    /\ ppc[mainPid] = "poll"
    /\ WriteDone
    /\ output_' = Drop(output_, Min(Head(wq).n, Len(output_)))
    /\ wq' = Tail(wq)
    /\ UNCHANGED <<sock, input_, closed_, readOp, c2s, s2c, cstate, creq,
                   responseBuffer, cmds, served, answer>>
    /\ UNCHANGED sigVars

\* Completion of the oldest async_write: output_.consume(n), then
\* CtrlConnection::handleWrite(e = success, n).
handleWrite ==
    /\ ppc[mainPid] = "poll"
    /\ WriteDone
    /\ LET rest == Drop(output_, Min(Head(wq).n, Len(output_)))
       IN /\ output_' = rest
          /\ sock' = (IF closed_ /\ rest = <<>> THEN "closed" ELSE sock)
    /\ wq' = Tail(wq)
    /\ UNCHANGED <<input_, closed_, readOp, c2s, s2c, cstate, creq,
                   responseBuffer, cmds, served, answer>>
    /\ UNCHANGED sigVars

\* A handler of the control channel is ready to run in ios_.poll().
CtrlReady ==
    \/ sock = "pending"
    \/ /\ sock = "open" /\ readOp
       /\ \/ Has(input_, NL) /\ ~WriteDone
          \/ ~Has(input_, NL) /\ c2s # <<>>
          \/ ~Has(input_, NL) /\ c2s = <<>> /\ cstate = "gone"
    \/ sock = "open" /\ Unsent /\ RoomS2C > 0
    \/ WriteDone

\* CtrlClient's constructor: socket.connect(endpoint).
Connect ==
    /\ cstate = "init"
    /\ sock = "listen"
    /\ sock' = "pending"
    /\ cstate' = "idle"
    /\ UNCHANGED <<input_, output_, closed_, readOp, wq, c2s, s2c, creq,
                   responseBuffer, cmds, served, answer>>
    /\ UNCHANGED sigVars

\* CtrlClient::command(command), lines 83-85: the request is the command
\* and a newline.
Command(line) ==
    /\ cstate = "idle"
    /\ cmds < MaxCmds
    /\ cmds' = cmds + 1
    /\ creq' = line \o <<NL>>
    /\ cstate' = "writing"
    /\ answer' = [no |-> cmds + 1, kind |-> "none"]
    /\ UNCHANGED <<sock, input_, output_, closed_, readOp, wq, c2s, s2c,
                   responseBuffer, served>>
    /\ UNCHANGED sigVars

\* command(), line 87: boost::asio::write blocks until every byte is sent;
\* it throws once the server has closed the connection.
ClientWrite ==
    /\ cstate = "writing"
    /\ IF sock = "closed"
          THEN /\ cstate' = "failed"
               /\ answer' = [no |-> answer.no, kind |-> "system_error"]
               /\ creq' = <<>>
               /\ UNCHANGED c2s
          ELSE /\ RoomC2S > 0
               /\ LET k == Min(RoomC2S, Len(creq))
                  IN /\ c2s' = c2s \o Take(creq, k)
                     /\ creq' = Drop(creq, k)
                     /\ cstate' = (IF k = Len(creq) THEN "reading" ELSE "writing")
               /\ UNCHANGED answer
    /\ UNCHANGED <<sock, input_, output_, closed_, readOp, wq, s2c,
                   responseBuffer, cmds, served>>
    /\ UNCHANGED sigVars

\* command(), line 89: read_until reads whatever part of the bytes in flight
\* the transport hands over, until the buffer holds an EOT; it throws at the
\* end of the stream.
ClientRead(k) ==
    /\ cstate = "reading"
    /\ ~Has(responseBuffer, EOT)
    /\ IF s2c # <<>>
          THEN /\ k \in 1 .. Len(s2c)
               /\ responseBuffer' = responseBuffer \o Take(s2c, k)
               /\ s2c' = Drop(s2c, k)
               /\ UNCHANGED <<cstate, answer>>
          ELSE /\ k = 1
               /\ sock = "closed"
               /\ cstate' = "failed"
               /\ answer' = [no |-> answer.no, kind |-> "system_error"]
               /\ UNCHANGED <<responseBuffer, s2c>>
    /\ UNCHANGED <<sock, input_, output_, closed_, readOp, wq, c2s, creq,
                   cmds, served>>
    /\ UNCHANGED sigVars

\* boost::algorithm::split(lines, response, is_any_of("\n")): the pieces
\* between the newlines, one more than there are newlines.
RECURSIVE SplitLines(_, _, _)
SplitLines(s, cur, acc) ==
    IF s = <<>> THEN Append(acc, cur)
    ELSE IF Head(s) = NL
            THEN SplitLines(Tail(s), <<>>, Append(acc, cur))
            ELSE SplitLines(Tail(s), Append(cur, Head(s)), acc)

\* boost::algorithm::starts_with(s, prefix).
starts_with(s, prefix) ==
    Len(s) >= Len(prefix) /\ Take(s, Len(prefix)) = prefix

\* lines.front().substr(7)
ErrorTextAt == 7

\* CtrlClient::name: "client" when the constructor is given no name.
name == <<"c", "l", "i", "e", "n", "t">>

\* A faulty end of command() that keeps the trailing empty element.
commandKeepsLast(response) ==
    LET lines == SplitLines(response, <<>>, <<>>) IN
      IF lines # <<>> /\ starts_with(lines[1], ErrorPrefix)
         THEN [kind |-> "CtrlCommandError",
               text |-> name \o <<":", " ">> \o Drop(lines[1], ErrorTextAt)]
         ELSE [kind |-> "lines", lines |-> lines]

\* A faulty end of command() that never raises.
commandNeverRaises(response) ==
    LET lines == SplitLines(response, <<>>, <<>>) IN
      [kind |-> "lines",
       lines |-> IF lines # <<>> /\ lines[Len(lines)] = <<>>
                    THEN Take(lines, Len(lines) - 1) ELSE lines]

\* command(), lines 96-108, for the bytes `response' read up to the EOT:
\* what the call returns or raises.
command(response) ==
    LET lines == SplitLines(response, <<>>, <<>>) IN
      IF lines # <<>> /\ starts_with(lines[1], ErrorPrefix)
         THEN [kind |-> "CtrlCommandError",
               text |-> name \o <<":", " ">> \o Drop(lines[1], ErrorTextAt)]
         ELSE [kind |-> "lines",
               lines |-> IF lines # <<>> /\ lines[Len(lines)] = <<>>
                            THEN Take(lines, Len(lines) - 1) ELSE lines]

\* command(), lines 91-108: the buffer holds an EOT; getline takes the bytes
\* up to it out of the buffer, the rest stays for the next call.
ClientReturn ==
    /\ cstate = "reading"
    /\ Has(responseBuffer, EOT)
    /\ LET at == First(responseBuffer, EOT)
       IN /\ answer' = [no |-> answer.no]
                          @@ command(Take(responseBuffer, at - 1))
          /\ responseBuffer' = Drop(responseBuffer, at)
    /\ cstate' = "idle"
    /\ UNCHANGED <<sock, input_, output_, closed_, readOp, wq, c2s, s2c, creq,
                   cmds, served>>
    /\ UNCHANGED sigVars

\* The client is destroyed: its socket closes.
ClientClose ==
    /\ cstate \in {"idle", "failed"}
    /\ cstate' = "gone"
    /\ UNCHANGED <<sock, input_, output_, closed_, readOp, wq, c2s, s2c, creq,
                   responseBuffer, cmds, served, answer>>
    /\ UNCHANGED sigVars

(***************************************************************************)
(* pidfile::signal and Service's sendSignal                                *)
(***************************************************************************)

\* pidfile::signal has not been called yet.
NoProbe ==
    [n |-> 0, ret |-> 0, thrown |-> FALSE, instance |-> "none", target |-> 0,
     file |-> FALSE, pid |-> NoPid, held |-> FALSE, at |-> 0]

\* No tool running yet; d is what its user is denied and i the number of
\* SIGTERMs the service's run loop ignores.
CliIdle(d, i) ==
    /\ sigDef = "none"
    /\ def = [signal |-> "none", signo |-> "none", timeout |-> -1,
              exit |-> -1]
    /\ cpc = "idle"
    /\ firstProbe = TRUE
    /\ now = 0
    /\ deadline = 0
    /\ code = -1
    /\ denied = d
    /\ ignoring = i
    /\ stopAt = -1
    /\ endedAt = -1
    /\ got = [p \in PidProc |->
                 [s \in {Signal_stop, Signal_logrotate, Signal_stat} |-> 0]]
    /\ probe1 = NoProbe
    /\ probeN = NoProbe

InitCli == CliIdle("none", 0)

\* boost::lexical_cast<std::time_t>: the number a text denotes, -1 standing
\* for bad_lexical_cast (the texts of the model denote no negative number).
lexical_cast(t) ==
    CASE t = "0" -> 0
      [] t = "1" -> 1
      [] t = "5" -> 5
      [] OTHER -> -1

\* parseSigDef.  For an unknown name signo keeps the value SigDef's
\* constructor gave it, 0, which is Signal::status; a timeout is parsed for
\* stop only and stays -1 (SigDef's default) when it is absent or
\* lexical_cast throws.  Lines 213 and 225 are the statement
\* `service::immediate_exit(3);', which makes an object and drops it:
\* nothing is thrown and the function goes on.  `exit' is 3 where one of the
\* two statements is reached, else -1.
parseSigDef(a) ==
    LET known == a.signal \in {"stop", "logrotate", "status", "stat"}
        signo == CASE a.signal = "stop" -> Signal_stop
                   [] a.signal = "logrotate" -> Signal_logrotate
                   [] a.signal = "status" -> Signal_status
                   [] a.signal = "stat" -> Signal_stat
                   [] OTHER -> Signal_status
        parsed == a.timeout # "none" /\ signo = Signal_stop
    IN  [signal |-> a.signal,
         signo |-> signo,
         timeout |-> IF parsed THEN lexical_cast(a.timeout) ELSE -1,
         exit |-> IF \/ ~known
                     \/ parsed /\ lexical_cast(a.timeout) = -1
                     THEN 3 ELSE -1]

\* kill(pid, 0) would not fail with ESRCH: the pid names a live process.
alive(p) == p \in PidProc /\ apc[p] # "exited"

\* lockFd(fd) for a descriptor opened with the given flags on inode i:
\* fcntl(F_SETLK) of a write lock needs a descriptor open for writing and
\* fails (EBADF, -1) on one opened O_RDONLY, whoever holds the lock.
lockFd(flags, i) ==
    IF flags = "O_RDONLY" THEN -1
    ELSE IF lock[i] = 0 THEN 0 ELSE -1

\* pidfile::signal that answers 0 for a missing file whatever was asked.
pidfile_signalNoReport(signo, reportMissingPid) ==
    IF denied = "open"
      THEN [ret |-> 0, thrown |-> TRUE, target |-> 0]
    ELSE IF path = NoFile
      THEN [ret |-> 0, thrown |-> FALSE, target |-> 0]
    ELSE IF content[path] = NoPid
      THEN [ret |-> 0, thrown |-> TRUE, target |-> 0]
    ELSE IF ~alive(content[path])
      THEN [ret |-> 0, thrown |-> FALSE, target |-> 0]
    ELSE IF denied = "kill"
      THEN [ret |-> 0, thrown |-> TRUE, target |-> 0]
    ELSE [ret |-> content[path], thrown |-> FALSE, target |-> content[path]]

\* pidfile::signal(path, signal, reportMissingPid): what it returns (ret),
\* whether it throws, and the process kill() reached (0: none).
pidfile_signal(signo, reportMissingPid) ==
    IF denied = "open"
      THEN [ret |-> 0, thrown |-> TRUE, target |-> 0]
    ELSE IF path = NoFile
      THEN [ret |-> IF reportMissingPid THEN -1 ELSE 0, thrown |-> FALSE,
            target |-> 0]
    ELSE IF lockFd("O_RDONLY", path) = 0
      THEN [ret |-> 0, thrown |-> FALSE, target |-> 0]
    ELSE IF content[path] = NoPid
      THEN [ret |-> 0, thrown |-> TRUE, target |-> 0]
    ELSE IF ~alive(content[path])
      THEN [ret |-> 0, thrown |-> FALSE, target |-> 0]
    ELSE IF denied = "kill"
      THEN [ret |-> 0, thrown |-> TRUE, target |-> 0]
    ELSE [ret |-> content[path], thrown |-> FALSE, target |-> content[path]]

\* The state of the service when pidfile::signal is called: "running" once
\* it has returned from allocate, "starting" inside allocate, else "none".
Instance ==
    IF Owner(svc) THEN "running"
    ELSE IF apc[svc] \in InAllocate THEN "starting" ELSE "none"

\* The process the pid file names, if it is alive (0: there is none).
Target ==
    IF path # NoFile /\ alive(content[path]) THEN content[path] ELSE 0

\* What a call of pidfile::signal found, for the history variables.
Probed(r) ==
    [n |-> probeN.n + 1, ret |-> r.ret, thrown |-> r.thrown,
     instance |-> Instance, target |-> Target,
     file |-> path # NoFile,
     pid |-> IF path = NoFile THEN NoPid ELSE content[path],
     held |-> path # NoFile /\ lock[path] # 0, at |-> now]

\* kill(pid, signo) reached process r.target: a real signal is delivered,
\* and the service's run loop decides to stop at the first SIGTERM it does
\* not ignore.
Kill(r, signo) ==
    LET sent1 == r.target # 0 /\ signo # Signal_status
        g == IF sent1 THEN [got EXCEPT ![r.target][signo] = @ + 1] ELSE got
    IN  /\ got' = g
        /\ stopAt' = IF /\ sent1 /\ r.target = svc /\ signo = Signal_stop
                        /\ stopAt = -1 /\ g[svc][Signal_stop] > ignoring
                        THEN now ELSE stopAt
        /\ probeN' = Probed(r)
        /\ probe1' = IF probeN.n = 0 THEN Probed(r) ELSE probe1

\* The exit code of sendSignal's generic signal handling.
genericCode(r) == IF r.thrown THEN 3 ELSE IF r.ret = 0 THEN 1 ELSE 0

\* processStatus.
processStatus(r) ==
    IF r.thrown THEN 4 ELSE IF r.ret = 0 THEN 1 ELSE IF r.ret < 0 THEN 3 ELSE 0

\* sendSignal(log, pidFile, arg) as preConfigHook runs it for --signal: the
\* tool exits with what it returns, save that for stop with a timeout it
\* enters waitForStop, whose deadline is set here.
sendSignal(a) ==
    LET d == parseSigDef(a)
        wait == d.signo = Signal_stop /\ d.timeout >= 0
        r == pidfile_signal(d.signo, d.signo = Signal_status)
    IN  /\ cpc = "idle"
        /\ sigDef' = a
        /\ def' = d
        /\ IF wait
             THEN /\ deadline' = now + d.timeout * TicksPerSecond
                  /\ cpc' = "probe"
                  /\ UNCHANGED <<code, got, stopAt, probe1, probeN>>
           ELSE /\ Kill(r, d.signo)
                /\ code' = IF d.signo = Signal_status THEN processStatus(r)
                           ELSE genericCode(r)
                /\ cpc' = "done"
                /\ UNCHANGED deadline
        /\ UNCHANGED <<firstProbe, now, denied, ignoring, endedAt>>

\* waitCode without the `first' flag: a target found gone is success.
waitCodeNoFirst(r) ==
    IF r.thrown THEN 3
    ELSE IF r.ret = 0 THEN 0
    ELSE IF now >= deadline THEN 2
    ELSE -1

\* The exit code an iteration of waitForStop's loop returns, -1 if it goes
\* on to sleep.
waitCode(r) ==
    IF r.thrown THEN 3
    ELSE IF r.ret = 0 THEN (IF firstProbe THEN 1 ELSE 0)
    ELSE IF now >= deadline THEN 2
    ELSE -1

\* waitForStop sending the signal once and probing with signal 0 afterwards.
waitForStopSignalsOnce ==
    LET signo == IF firstProbe THEN def.signo ELSE Signal_status
        r == pidfile_signal(signo, FALSE)
    IN  /\ cpc = "probe"
        /\ Kill(r, signo)
        /\ code' = waitCode(r)
        /\ cpc' = IF waitCode(r) = -1 THEN "sleep" ELSE "done"
        /\ UNCHANGED <<sigDef, def, firstProbe, now, deadline, denied,
                       ignoring, endedAt>>

\* waitForStop: one iteration of the loop up to the usleep.
waitForStop ==
    LET r == pidfile_signal(def.signo, FALSE)
    IN  /\ cpc = "probe"
        /\ Kill(r, def.signo)
        /\ code' = waitCode(r)
        /\ cpc' = IF waitCode(r) = -1 THEN "sleep" ELSE "done"
        /\ UNCHANGED <<sigDef, def, firstProbe, now, deadline, denied,
                       ignoring, endedAt>>

\* waitForStop: `::usleep(100000)' and `first = false'.
Sleep ==
    /\ cpc = "sleep"
    /\ now' = now + 1
    /\ firstProbe' = FALSE
    /\ cpc' = "probe"
    /\ UNCHANGED <<sigDef, def, deadline, code, denied, ignoring, stopAt,
                   endedAt, got, probe1, probeN>>

\* The service ends: by itself before the tool is run, or because its run
\* loop has decided to stop.  Nothing removes the pid file.
ServiceEnds ==
    /\ cpc = "idle" \/ stopAt # -1
    /\ Exit(svc)
    /\ endedAt' = now
    /\ UNCHANGED <<sigDef, def, cpc, firstProbe, now, deadline, code, denied,
                   ignoring, stopAt, got, probe1, probeN>>

\* SIGTERM ends a process that does not handle it.
StrayEnds ==
    /\ apc[stray] = "idle"
    /\ got[stray][Signal_stop] > 0
    /\ apc' = [apc EXCEPT ![stray] = "exited"]
    /\ UNCHANGED <<path, made, content, lock, fd, pid, liveAtStart, solo,
                   verdict>>

(***************************************************************************)
(* ScopedPidFile::ScopedPidFile(path, waitTime, checkPeriod)               *)
(***************************************************************************)

InitScoped ==
    /\ spc = "none"
    /\ waitTime = 0
    /\ end = 0
    /\ clock = 0
    /\ began = 0
    /\ tries = 0
    /\ failedAt = 0

\* std::time(nullptr): whole seconds.
time(c) == c \div PeriodsPerSecond

\* The constructor is called, at any time within a second:
\* `end(std::time(nullptr) + waitTime)', and the first allocate begins.
ScopedPidFile(w, c) ==
    /\ spc = "none"
    /\ apc[waiter] = "idle"
    /\ clock' = c
    /\ began' = c
    /\ waitTime' = w
    /\ end' = time(c) + w
    /\ spc' = "trying"
    /\ UNCHANGED <<tries, failedAt>>

\* `allocate(path_)' inside the constructor's loop.
ScopedAllocate ==
    /\ spc = "trying"
    /\ allocate(waiter)

\* `allocate(path_); return;'
Constructed ==
    /\ spc = "trying"
    /\ apc[waiter] = "done"
    /\ spc' = "held"
    /\ tries' = tries + 1
    /\ UNCHANGED <<waitTime, end, clock, began, failedAt>>

\* The handler with `>' for `>=': one more round at the deadline.
CaughtLate ==
    /\ spc = "trying"
    /\ apc[waiter] = "already"
    /\ spc' = IF time(clock) > end THEN "timeout" ELSE "sleep"
    /\ tries' = tries + 1
    /\ failedAt' = clock
    /\ UNCHANGED <<waitTime, end, clock, began>>

\* `catch (const AlreadyRunning&)': rethrow once the time is up, else go on
\* to sleep.
Caught ==
    /\ spc = "trying"
    /\ apc[waiter] = "already"
    /\ spc' = IF time(clock) >= end THEN "timeout" ELSE "sleep"
    /\ tries' = tries + 1
    /\ failedAt' = clock
    /\ UNCHANGED <<waitTime, end, clock, began>>

\* Any other exception of allocate leaves the constructor.
Propagated ==
    /\ spc = "trying"
    /\ apc[waiter] = "syserr"
    /\ spc' = "error"
    /\ tries' = tries + 1
    /\ UNCHANGED <<waitTime, end, clock, began, failedAt>>

\* `::usleep(checkPeriod)' and the next round of the loop: allocate is
\* called anew, with its local pid at -1.
Usleep ==
    /\ spc = "sleep"
    /\ clock' = clock + 1
    /\ spc' = "trying"
    /\ apc' = [apc EXCEPT ![waiter] = "idle"]
    /\ pid' = [pid EXCEPT ![waiter] = -1]
    /\ UNCHANGED <<waitTime, end, began, tries, failedAt>>
    /\ UNCHANGED <<path, made, content, lock, fd, liveAtStart, solo, verdict>>

\* ScopedPidFile::~ScopedPidFile of the constructed object: unlink(path_).
ScopedDestroy ==
    /\ spc = "held"
    /\ path' = NoFile
    /\ spc' = "destroyed"
    /\ UNCHANGED <<waitTime, end, clock, began, tries, failedAt>>
    /\ UNCHANGED <<made, content, lock, apc, fd, pid, liveAtStart, solo,
                   verdict>>

(***************************************************************************)
(* PipeNotifier::slave and PipeNotifier::master                            *)
(***************************************************************************)

InitNotifier ==
    /\ pipe = <<>>
    /\ isRunning = TRUE
    /\ wpc = "idle"
    /\ string = <<>>
    /\ mpc = "idle"
    /\ sentLog = <<>>
    /\ recvLog = <<>>
    /\ calls = 0

\* slave() without the size test.
slaveAnySize(s) ==
    /\ wpc = "idle"
    /\ calls < MaxSends
    /\ calls' = calls + 1
    /\ string' = s
    /\ wpc' = "write"
    /\ UNCHANGED <<pipe, isRunning, mpc, sentLog, recvLog>>

\* slave(string) up to its loop: a string larger than PIPE_BUF is refused
\* with a runtime error.
slave(s) ==
    /\ wpc = "idle"
    /\ calls < MaxSends
    /\ calls' = calls + 1
    /\ string' = s
    /\ wpc' = IF Len(s) > PIPE_BUF THEN "threw" ELSE "write"
    /\ UNCHANGED <<pipe, isRunning, mpc, sentLog, recvLog>>

\* write(fd_[1], data, size) on a pipe in packet mode: what the pipe holds
\* afterwards.  A write of at most PIPE_BUF bytes makes one packet, a
\* longer one is split into packets of PIPE_BUF bytes, and a write of no
\* byte makes none.
Packets(s) ==
    IF Len(s) = 0 THEN <<>>
    ELSE IF Len(s) <= PIPE_BUF THEN <<s>>
    ELSE <<SubSeq(s, 1, PIPE_BUF), SubSeq(s, PIPE_BUF + 1, Len(s))>>

\* slave(): write() succeeds (there is room in the pipe) and slave returns.
SlaveWrite ==
    /\ wpc = "write"
    /\ Len(pipe) + Len(Packets(string)) <= PipeCap
    /\ pipe' = pipe \o Packets(string)
    /\ sentLog' = Append(sentLog, string)
    /\ wpc' = "idle"
    /\ UNCHANGED <<isRunning, string, mpc, recvLog, calls>>

\* slave(): write() blocks on a full pipe and a signal interrupts it
\* (EINTR): a runtime error if the Runnable does not run, else once more.
SlaveInterrupted ==
    /\ wpc = "write"
    /\ Len(pipe) + Len(Packets(string)) > PipeCap
    /\ wpc' = IF isRunning THEN "write" ELSE "threw"
    /\ UNCHANGED <<pipe, isRunning, string, mpc, sentLog, recvLog, calls>>

\* master() is called.
master ==
    /\ mpc = "idle"
    /\ Len(recvLog) < MaxSends
    /\ mpc' = "read"
    /\ UNCHANGED <<pipe, isRunning, wpc, string, sentLog, recvLog, calls>>

\* master(): read() into the buffer of PIPE_BUF bytes returns the oldest
\* packet and master returns it.
MasterRead ==
    /\ mpc = "read"
    /\ pipe # <<>>
    /\ recvLog' = Append(recvLog,
                         SubSeq(Head(pipe), 1, Min(Len(Head(pipe)), PIPE_BUF)))
    /\ pipe' = Tail(pipe)
    /\ mpc' = "idle"
    /\ UNCHANGED <<isRunning, wpc, string, sentLog, calls>>

\* master(): read() blocks on an empty pipe and a signal interrupts it
\* (EINTR): a runtime error if the Runnable does not run, else once more.
MasterInterrupted ==
    /\ mpc = "read"
    /\ pipe = <<>>
    /\ mpc' = IF isRunning THEN "read" ELSE "threw"
    /\ UNCHANGED <<pipe, isRunning, wpc, string, sentLog, recvLog, calls>>

\* The Runnable is told to stop.
RunnableStops ==
    /\ isRunning
    /\ isRunning' = FALSE
    /\ UNCHANGED <<pipe, wpc, string, mpc, sentLog, recvLog, calls>>

(***************************************************************************)
(* NetCtrlClient::Detail: the handshake of the constructor                 *)
(***************************************************************************)

InitNet ==
    /\ npc = "new"
    /\ component = <<>>
    /\ secret = <<>>
    /\ challenge = <<>>
    /\ raised = "none"
    /\ nsent = <<>>
    /\ nreplies = <<>>

\* The bytes the digest tells apart, and the hexadecimal digits.
DigestBytes == <<"c", "d", "e", "p", "q", "x", ":">>
HexDigits ==
    <<"0", "1", "2", "3", "4", "5", "6", "7", "8", "9", "a", "b", "c", "d",
      "e", "f">>

ByteCode(b) ==
    IF \E i \in 1 .. Len(DigestBytes) : DigestBytes[i] = b
       THEN CHOOSE i \in 1 .. Len(DigestBytes) : DigestBytes[i] = b
       ELSE 0

RECURSIVE Mix(_, _)
Mix(s, i) ==
    IF i > Len(s) THEN 0 ELSE (i * ByteCode(s[i]) + Mix(s, i + 1)) % 256

\* utility::md5::hash_hex: the digest of the bytes as hexadecimal digits.
\* (The digest is one byte wide here: it depends on every byte and on the
\* order of the bytes, and two inputs may collide.)
hash_hex(s) ==
    <<HexDigits[(Mix(s, 1) \div 16) + 1], HexDigits[(Mix(s, 1) % 16) + 1]>>

\* A faulty ctrlResponse that leaves the separator out.
ctrlResponseNoSeparator(c, s) ==
    hash_hex(c \o s)

\* ctrlResponse(challenge, secret).
ctrlResponse(c, s) ==
    hash_hex(c \o <<":">> \o s)

\* Detail's constructor, lines 52-60, given a component name and a secret:
\* command(component) writes the component name and a newline.
Detail(c, s) ==
    /\ npc = "new"
    /\ component' = c
    /\ secret' = s
    /\ nsent' = Append(nsent, c)
    /\ npc' = "wait1"
    /\ UNCHANGED <<challenge, raised, nreplies>>

\* Line 60: command(component) returns or raises for the reply r, and
\* front() takes the first line.
ReadChallenge(r) ==
    /\ npc = "wait1"
    /\ IF command(r).kind = "lines" THEN command(r).lines # <<>> ELSE TRUE
    /\ nreplies' = Append(nreplies, r)
    /\ IF command(r).kind = "CtrlCommandError"
          THEN /\ npc' = "failed"
               /\ raised' = "CtrlCommandError"
               /\ UNCHANGED challenge
          ELSE /\ npc' = "have"
               /\ challenge' = command(r).lines[1]
               /\ UNCHANGED raised
    /\ UNCHANGED <<component, secret, nsent>>

\* Line 60 for a reply without a line: front() of an empty vector is
\* undefined; the call yields some bytes or the process crashes.
ReadNoChallenge(r) ==
    /\ npc = "wait1"
    /\ IF command(r).kind = "lines" THEN command(r).lines = <<>> ELSE FALSE
    /\ nreplies' = Append(nreplies, r)
    /\ \/ npc' = "crashed" /\ UNCHANGED challenge
       \/ npc' = "have" /\ challenge' \in Garbage
    /\ UNCHANGED <<component, secret, raised, nsent>>

\* Line 61: command(ctrlResponse(challenge, secret)) writes the digest.
SendResponse ==
    /\ npc = "have"
    /\ nsent' = Append(nsent, ctrlResponse(challenge, secret))
    /\ npc' = "wait2"
    /\ UNCHANGED <<component, secret, challenge, raised, nreplies>>

\* Line 61: the second command() returns (its lines are dropped) or raises;
\* then the constructor is done and NetCtrlClient exists.
ReadVerdict(r) ==
    /\ npc = "wait2"
    /\ nreplies' = Append(nreplies, r)
    /\ IF command(r).kind = "CtrlCommandError"
          THEN npc' = "failed" /\ raised' = "CtrlCommandError"
          ELSE npc' = "ready" /\ UNCHANGED raised
    /\ UNCHANGED <<component, secret, challenge, nsent>>

\* NetCtrlClient::command of a constructed client, lines 96-99: the request
\* is written.
UserCommand(c) ==
    /\ npc = "ready"
    /\ Len(nsent) < 2 + MaxUser
    /\ nsent' = Append(nsent, c)
    /\ npc' = "waitU"
    /\ UNCHANGED <<component, secret, challenge, raised, nreplies>>

\* ... and its reply is returned or raised to the caller; the client stays.
UserReply(r) ==
    /\ npc = "waitU"
    /\ nreplies' = Append(nreplies, r)
    /\ npc' = "ready"
    /\ UNCHANGED <<component, secret, challenge, raised, nsent>>

(***************************************************************************)
(* Service::operator(): configuration, daemonization, start-up, run and    *)
(* shutdown                                                                *)
(***************************************************************************)

InitLife ==
    /\ dpc = "configure"
    /\ daemonize = FALSE
    /\ exitCode = -1
    /\ cleanup = "empty"
    /\ handling = "off"
    /\ starter = "none"
    /\ starterCode = -1
    /\ inter = "none"
    /\ interCode = -1
    /\ n1w = {}
    /\ n2w = {}
    /\ daemonizeFinishRun = FALSE
    /\ reused = FALSE
    /\ hook = [ret |-> 0, thrown |-> FALSE, first |-> "none"]
    /\ termAtReturn = FALSE
    /\ trace = <<>>

(***************************************************************************)
(* pidfile::allocate when a system call fails                              *)
(***************************************************************************)

InitFault ==
    before = [p \in PidProc |-> NoFile]

\* allocate() is called: line 88, and the state of the path is remembered.
Called(p) ==
    /\ Open1(p)
    /\ before' = [before EXCEPT ![p] = path]

\* Lines 91-97: the first open fails with another error than EEXIST (the
\* path may exist or not); the error is thrown.
Open1Fails(p) ==
    /\ apc[p] = "idle"
    /\ liveAtStart' = [liveAtStart EXCEPT ![p] = {q \in PidProc : Owner(q)}]
    /\ solo' = [q \in PidProc |->
                  IF q = p THEN \A r \in PidProc : apc[r] \notin InAllocate
                  ELSE solo[q]]
    /\ apc' = [apc EXCEPT ![p] = "syserr"]
    /\ before' = [before EXCEPT ![p] = path]
    /\ UNCHANGED <<path, made, content, lock, fd, pid, verdict>>

\* Lines 136-145: the second exclusive create fails although the path is
\* absent (no space, no descriptor left); the error is thrown.
Open3Fails(p) ==
    /\ apc[p] = "open3"
    /\ apc' = [apc EXCEPT ![p] = "syserr"]
    /\ UNCHANGED <<path, made, content, lock, fd, pid, liveAtStart, solo,
                   verdict>>
    /\ UNCHANGED before

\* Lines 148-153: fcntl fails on the file just created (no lock left); the
\* error is thrown and ~File closes the descriptor.
LockFails(p) ==
    /\ apc[p] = "lock"
    /\ apc' = [apc EXCEPT ![p] = "syserr"]
    /\ FileClose(p)
    /\ UNCHANGED <<path, made, content, pid, liveAtStart, solo, verdict>>
    /\ UNCHANGED before

\* Lines 155-160: fdopen fails on the locked file; the error is thrown and
\* ~File closes the descriptor, which gives up the lock.
FdopenFails(p) ==
    /\ apc[p] = "write"
    /\ apc' = [apc EXCEPT ![p] = "syserr"]
    /\ FileClose(p)
    /\ UNCHANGED <<path, made, content, pid, liveAtStart, solo, verdict>>
    /\ UNCHANGED before

(***************************************************************************)
(* SignalHandler::process with the calls of processStat() counted          *)
(***************************************************************************)

InitStat ==
    processStat = [p \in SvcProc |-> 0]

(***************************************************************************)
(* SignalHandler::atFork and the handlers the worker inherits              *)
(***************************************************************************)

NoCon == [socket |-> "none", readOp |-> FALSE, input_ |-> <<>>,
          accept |-> "none"]

InitFork ==
    /\ ctrl_ = [p \in SvcProc |-> p = mainPid]
    /\ childCon = NoCon
    /\ childDid = [read |-> FALSE, answered |-> FALSE]

\* The user's code when it is not called.
NoOwner == [text |-> <<>>, ret |-> "false"]

\* fork() in the user's code of the main process with the atfork handlers:
\* the worker gets a copy of every descriptor and of every outstanding
\* operation of ios_; atFork(child) keeps them (notify_fork(fork_child)
\* registers the descriptors again) and calls stopAccept(), which cancels
\* the accept and closes the worker's copy of the acceptor.
ForkWorker ==
    /\ Fork(mainPid, workerPid)
    /\ ctrl_' = [ctrl_ EXCEPT ![workerPid] = FALSE]
    /\ childCon' = [socket |-> IF sock = "open" THEN "open" ELSE "none",
                    readOp |-> sock = "open" /\ readOp,
                    input_ |-> IF sock = "open" THEN input_ ELSE <<>>,
                    accept |-> IF sock \in {"listen", "pending"}
                                  THEN "aborted" ELSE "none"]
    /\ UNCHANGED childDid

\* newCtrlConnection(e = operation_aborted, con) in the worker: nothing is
\* started.
ChildAcceptAborted ==
    /\ workerPid \in procs
    /\ ppc[workerPid] = "poll"
    /\ childCon.accept = "aborted"
    /\ childCon' = [childCon EXCEPT !.accept = "none"]
    /\ UNCHANGED <<ctrl_, childDid>>

\* The worker's async_read_until on the inherited socket: the bytes that
\* arrived are read into the worker's input_.
ChildReadSome ==
    /\ workerPid \in procs
    /\ ppc[workerPid] = "poll"
    /\ childCon.socket = "open" /\ childCon.readOp
    /\ ~Has(childCon.input_, NL)
    /\ c2s # <<>>
    /\ childCon' = [childCon EXCEPT !.input_ = @ \o c2s]
    /\ c2s' = <<>>
    /\ childDid' = [childDid EXCEPT !.read = TRUE]
    /\ UNCHANGED <<sock, input_, output_, closed_, readOp, wq, s2c, cstate,
                   creq, responseBuffer, cmds, served, answer>>
    /\ UNCHANGED ctrl_

\* CtrlConnection::lineRead(e = success) in the worker: the request is
\* served there and the reply goes to the shared socket.
ChildLineRead ==
    /\ workerPid \in procs
    /\ ppc[workerPid] = "poll"
    /\ childCon.socket = "open" /\ childCon.readOp
    /\ Has(childCon.input_, NL)
    /\ LET at   == First(childCon.input_, NL)
           line == Take(childCon.input_, at - 1)
           r    == Reply(split(line), NoOwner)
           out  == Block(r)
           bang == Closing(split(line))
       IN
         /\ childCon' = [childCon EXCEPT !.input_ = Drop(@, at),
                                         !.readOp = ~bang]
         /\ s2c' = s2c \o Take(out, Min(RoomS2C, Len(out)))
         /\ logRotateEvent' = (IF r.logRotate THEN logRotateEvent + 1
                                              ELSE logRotateEvent)
         /\ IF r.terminate THEN terminate ELSE UNCHANGED terminated
    /\ childDid' = [childDid EXCEPT !.answered = TRUE]
    /\ UNCHANGED <<sock, input_, output_, closed_, readOp, wq, c2s, cstate,
                   creq, responseBuffer, cmds, served, answer>>
    /\ UNCHANGED <<statEvent, pids, removed, refused, procs, thisTerminated,
                   lastLogRotateEvent, lastStatEvent, ppc, result, rotated,
                   termDispatched, stopCalled, sent>>
    /\ UNCHANGED ctrl_

\* A handler of the worker's ios_ is ready to run.
ChildReady ==
    \/ childCon.accept = "aborted"
    \/ /\ childCon.socket = "open" /\ childCon.readOp
       /\ Has(childCon.input_, NL) \/ c2s # <<>>

(***************************************************************************)
(* SignalHandler::startAccept, newCtrlConnection and connection errors     *)
(***************************************************************************)

InitAccept ==
    /\ hstate = "constructed"
    /\ accepts = 0
    /\ aborted = 0
    /\ failures = 0
    /\ con = [c \in Con |-> "none"]

\* SignalHandler::startAccept(): the number of accepts it starts.
startAccept == IF ctrl_[mainPid] THEN 1 ELSE 0

\* SignalHandler::start(), called once by ScopedHandler.
SignalHandler_start ==
    /\ hstate = "constructed"
    /\ hstate' = "started"
    /\ accepts' = accepts + startAccept
    /\ UNCHANGED <<aborted, failures, con, forkVars>>

\* A client connects to the control socket: the connection waits in the
\* listen queue, or is refused once the acceptor is closed.
PeerConnects(c) ==
    /\ con[c] = "none"
    /\ con' = [con EXCEPT ![c] = IF ctrl_[mainPid] THEN "queued"
                                                   ELSE "refused"]
    /\ UNCHANGED <<hstate, accepts, aborted, failures, forkVars>>

\* newCtrlConnection(e = success, con): startRead() on the new connection,
\* then startAccept().
Accepted(c) ==
    /\ accepts > 0
    /\ con[c] = "queued"
    /\ con' = [con EXCEPT ![c] = "reading"]
    /\ accepts' = accepts - 1 + startAccept
    /\ UNCHANGED <<hstate, aborted, failures, forkVars>>

\* Number of failing accepts in one run.
MaxFailures == 2

\* A faulty newCtrlConnection that starts no accept after an error.
AcceptFailedGivesUp ==
    /\ accepts > 0
    /\ failures < MaxFailures
    /\ failures' = failures + 1
    /\ accepts' = accepts - 1
    /\ UNCHANGED <<hstate, aborted, con, forkVars>>

\* newCtrlConnection(e, con) with an error other than operation_aborted
\* (the peer has gone, no descriptor is left): startAccept().
AcceptFailed ==
    /\ accepts > 0
    /\ failures < MaxFailures
    /\ failures' = failures + 1
    /\ accepts' = accepts - 1 + startAccept
    /\ UNCHANGED <<hstate, aborted, con, forkVars>>

\* lineRead(e = success) of a request that does not close: the reply is
\* written and the next read is started.
RequestServed(c) ==
    /\ con[c] = "reading"
    /\ con' = [con EXCEPT ![c] = "both"]
    /\ UNCHANGED <<hstate, accepts, aborted, failures, forkVars>>

\* lineRead(e) with an error or the end of the stream (the peer closed):
\* it returns at once, no read is started again.
lineReadError(c) ==
    /\ con[c] \in {"reading", "both"}
    /\ con' = [con EXCEPT ![c] = IF @ = "both" THEN "writing" ELSE "gone"]
    /\ UNCHANGED <<hstate, accepts, aborted, failures, forkVars>>

\* handleWrite(e, bytes), with or without an error: the write is over.
handleWriteOf(c) ==
    /\ con[c] \in {"both", "writing"}
    /\ con' = [con EXCEPT ![c] = IF @ = "both" THEN "reading" ELSE "gone"]
    /\ UNCHANGED <<hstate, accepts, aborted, failures, forkVars>>

\* SignalHandler::stop(): signals_.cancel() and stopAccept(), which
\* cancels the outstanding accept and closes the acceptor.
SignalHandler_stop ==
    /\ hstate = "started"
    /\ hstate' = "stopped"
    /\ IF ctrl_[mainPid]
          THEN /\ aborted' = aborted + accepts
               /\ accepts' = 0
               /\ ctrl_' = [ctrl_ EXCEPT ![mainPid] = FALSE]
               /\ con' = [c \in Con |-> IF con[c] = "queued" THEN "refused"
                                                             ELSE con[c]]
          ELSE UNCHANGED <<aborted, accepts, ctrl_, con>>
    /\ UNCHANGED <<failures, childCon, childDid>>

\* newCtrlConnection(e = operation_aborted, con): nothing is started.
AcceptAborted ==
    /\ aborted > 0
    /\ aborted' = aborted - 1
    /\ UNCHANGED <<hstate, accepts, failures, con, forkVars>>

(***************************************************************************)
(* CtrlConnection: what the asynchronous writes put on the wire            *)
(***************************************************************************)

InitOrder ==
    /\ wire = <<>>
    /\ blocks = <<>>
    /\ overlap = FALSE

\* The bytes this step hands to the socket.
Sent == Drop(s2c', Len(s2c))

\* lineRead(e = success) with its async_write: the block of the request is
\* due after the blocks of the requests before it.
lineReadWrites(o) ==
    /\ lineRead(o)
    /\ wire' = wire \o Sent
    /\ blocks' = blocks \o served'.bytes
    /\ overlap' = (overlap \/ wq # <<>>)

\* An outstanding async_write goes on.
WriteSomeWrites ==
    /\ WriteSome
    /\ wire' = wire \o Sent
    /\ UNCHANGED <<blocks, overlap>>

(***************************************************************************)
(* Service::operator(): helpers that raise immediate_exit                  *)
(***************************************************************************)

InitStartup ==
    /\ step = "configure"
    /\ wanted = [daemonize |-> FALSE, pidfile |-> FALSE]
    /\ events = <<>>
    /\ returns = -1
    /\ raisedBy = "none"
    /\ raisedCode = -1

\* The largest exit code of the service's own helpers: processStatus's
\* `return 4', which preConfigHook raises through immediateExit.
MaxExitCode == 4

\* The codes a helper raises immediate_exit with.
ImmediateCodes == EXIT_SUCCESS .. MaxExitCode

\* Lines 442-496, no helper raising: daemonize and pidFilePath are set.
Configured(d, p) ==
    /\ step = "configure"
    /\ wanted' = [daemonize |-> d, pidfile |-> p]
    /\ step' = "preDaemonize"
    /\ UNCHANGED <<events, returns, raisedBy, raisedCode>>

\* Lines 442-496: configuration() or preConfigHook(), called inside
\* Program::configure, raises immediate_exit(c); line 494 catches it.
ConfigureRaises(h, c) ==
    /\ step = "configure"
    /\ h \in {"configuration", "preConfigHook"}
    /\ raisedBy' = h
    /\ raisedCode' = c
    /\ returns' = c
    /\ step' = "returned"
    /\ UNCHANGED <<wanted, events>>

\* A hook called outside every try block raises immediate_exit(c): no
\* handler of operator() takes it and it leaves the function.
Uncaught(h, c) ==
    /\ step = h
    /\ raisedBy' = h
    /\ raisedCode' = c
    /\ step' = "escaped"
    /\ UNCHANGED <<wanted, events, returns>>

\* Line 503: preDaemonize(daemonize) returns.
preDaemonize ==
    /\ step = "preDaemonize"
    /\ step' = (IF wanted.daemonize THEN "daemonize" ELSE "pidfile")
    /\ UNCHANGED <<wanted, events, returns, raisedBy, raisedCode>>

\* Line 503: preDaemonize(daemonize) raises immediate_exit(c).
preDaemonizeRaises(c) == Uncaught("preDaemonize", c)

\* Lines 508-599: the process that goes on is the daemon.
Daemonized ==
    /\ step = "daemonize"
    /\ events' = Append(events, "daemonize")
    /\ step' = "pidfile"
    /\ UNCHANGED <<wanted, returns, raisedBy, raisedCode>>

\* Lines 601-620: pidfile::allocate returns, if a path is given.
PidFileAllocated ==
    /\ step = "pidfile"
    /\ events' = (IF wanted.pidfile THEN Append(events, "pidfile")
                                    ELSE events)
    /\ step' = "core"
    /\ UNCHANGED <<wanted, returns, raisedBy, raisedCode>>

\* Lines 603-608: pidfile::allocate throws.
PidFileRefused ==
    /\ step = "pidfile"
    /\ wanted.pidfile
    /\ returns' = EXIT_FAILURE
    /\ step' = "returned"
    /\ UNCHANGED <<wanted, events, raisedBy, raisedCode>>

\* Lines 623-626: the SignalHandler is made (shared region, control
\* socket), "before persona switch because of socket".
SignalHandlerCreated ==
    /\ step = "core"
    /\ events' = Append(events, "core")
    /\ step' = "prePersonaSwitch"
    /\ UNCHANGED <<wanted, returns, raisedBy, raisedCode>>

\* Line 629: prePersonaSwitch() returns.
prePersonaSwitch ==
    /\ step = "prePersonaSwitch"
    /\ step' = "persona"
    /\ UNCHANGED <<wanted, events, returns, raisedBy, raisedCode>>

\* Line 629: prePersonaSwitch() raises immediate_exit(c).
prePersonaSwitchRaises(c) == Uncaught("prePersonaSwitch", c)

\* Lines 630-632: switchPersona and loginEnv return.
switchPersona ==
    /\ step = "persona"
    /\ events' = Append(events, "persona")
    /\ step' = "postPersonaSwitch"
    /\ UNCHANGED <<wanted, returns, raisedBy, raisedCode>>

\* Lines 633-635: switchPersona or loginEnv throws a std::exception.
switchPersonaThrows ==
    /\ step = "persona"
    /\ returns' = EXIT_FAILURE
    /\ step' = "returned"
    /\ UNCHANGED <<wanted, events, raisedBy, raisedCode>>

\* A faulty driver that forgets to register itself.
globalTerminateSkipped ==
    /\ step = "postPersonaSwitch"
    /\ events' = Append(events, "start")
    /\ step' = "inStart"
    /\ UNCHANGED <<wanted, returns, raisedBy, raisedCode>>

\* Lines 636-649: postPersonaSwitch() returns, globalTerminate(true) adds
\* this pid to the terminator set, the handler is started and start() is
\* called.
postPersonaSwitch ==
    /\ step = "postPersonaSwitch"
    /\ events' = events \o <<"register", "start">>
    /\ step' = "inStart"
    /\ UNCHANGED <<wanted, returns, raisedBy, raisedCode>>

\* Line 636: postPersonaSwitch() raises immediate_exit(c).
postPersonaSwitchRaises(c) == Uncaught("postPersonaSwitch", c)

\* Lines 649-667: start() returns; isRunning() says b; if true,
\* daemonizeFinish() in daemon mode and run() is called.
startReturned(b) ==
    /\ step = "inStart"
    /\ IF b THEN /\ events' = Append(events, "run")
                 /\ step' = "inRun"
                 /\ UNCHANGED returns
            ELSE /\ returns' = EXIT_FAILURE
                 /\ step' = "returned"
                 /\ UNCHANGED events
    /\ UNCHANGED <<wanted, raisedBy, raisedCode>>

\* Lines 650-656: start() raises immediate_exit(c), which is caught.
startRaises(c) ==
    /\ step = "inStart"
    /\ raisedBy' = "start"
    /\ raisedCode' = c
    /\ returns' = c
    /\ step' = "returned"
    /\ UNCHANGED <<wanted, events>>

\* Lines 667-676: run() returns c and so does operator().
runReturned(c) ==
    /\ step = "inRun"
    /\ returns' = c
    /\ step' = "returned"
    /\ UNCHANGED <<wanted, events, raisedBy, raisedCode>>

InitMore ==
    InitScoped /\ InitNotifier /\ InitNet /\ InitLife /\ InitFault /\ InitStat /\ InitFork /\ InitAccept /\ InitOrder
    /\ InitStartup

(***************************************************************************)
(* SignalHandler::process and the specifications                           *)
(***************************************************************************)

\* SignalHandler::process(), lines 155-179: ios_.poll() returns when no
\* handler is ready; then the two event checks and the result.
ProcessEnd(p) ==
    /\ p \in procs
    /\ ppc[p] = "poll"
    /\ p = mainPid => ~CtrlReady
    /\ LogRotateCheck(p)
    /\ StatCheck(p)
    /\ result' = [result EXCEPT ![p] =
                     IF ProcessResult(p) THEN "stop" ELSE "continue"]
    /\ ppc' = [ppc EXCEPT ![p] = "user"]
    /\ UNCHANGED <<terminated, logRotateEvent, statEvent, pids, removed, refused, procs,
                   thisTerminated, termDispatched, stopCalled, sent>>

Init == InitPid /\ InitSig /\ InitCtrl /\ InitCli /\ InitMore

\* The same with no PID file left behind by an earlier run.
InitService == Init /\ path = NoFile

\* The PID file manager: processes racing through allocate().
NextPid ==
    \E p \in PidProc :
       \/ allocate(p) /\ UNCHANGED <<sigVars, ctrlVars, cliVars, moreVars>>
       \/ Exit(p) /\ UNCHANGED <<sigVars, ctrlVars, cliVars, moreVars>>

SpecPid == Init /\ [][NextPid]_vars

\* The termination region: the main process, its worker and their signals.
NextSig ==
    \/ Boot /\ UNCHANGED <<pidVars, ctrlVars, cliVars, moreVars>>
    \/ \E p \in SvcProc :
         \/ ProcessBegin(p) /\ UNCHANGED <<pidVars, ctrlVars, cliVars, moreVars>>
         \/ \E signo \in Signals :
               signal(p, signo) /\ UNCHANGED <<pidVars, ctrlVars, cliVars, moreVars>>
         \/ ProcessEnd(p) /\ UNCHANGED <<pidVars, ctrlVars, cliVars, moreVars>>
         \/ stop(p) /\ UNCHANGED <<pidVars, ctrlVars, cliVars, moreVars>>
         \/ \E value \in BOOLEAN, arg \in {0} \cup Pids :
               /\ globalTerminate(p, value, arg)
               /\ UNCHANGED <<pidVars, ctrlVars, cliVars, moreVars>>
         \/ \E c \in SvcProc :
               Fork(p, c) /\ UNCHANGED <<pidVars, ctrlVars, cliVars, moreVars>>

SpecSig == InitService /\ [][NextSig]_vars

\* The control channel: the main process serving one client.
NextCtrl ==
    \/ Boot /\ UNCHANGED <<pidVars, ctrlVars, cliVars, moreVars>>
    \/ ProcessBegin(mainPid) /\ UNCHANGED <<pidVars, ctrlVars, cliVars, moreVars>>
    \/ ProcessEnd(mainPid) /\ UNCHANGED <<pidVars, ctrlVars, cliVars, moreVars>>
    \/ newCtrlConnection /\ UNCHANGED <<pidVars, cliVars, moreVars>>
    \/ ReadSome /\ UNCHANGED <<pidVars, cliVars, moreVars>>
    \/ \E o \in OwnerChoices : lineRead(o) /\ UNCHANGED <<pidVars, cliVars, moreVars>>
    \/ lineReadEof /\ UNCHANGED <<pidVars, cliVars, moreVars>>
    \/ WriteSome /\ UNCHANGED <<pidVars, cliVars, moreVars>>
    \/ handleWrite /\ UNCHANGED <<pidVars, cliVars, moreVars>>
    \/ Connect /\ UNCHANGED <<pidVars, cliVars, moreVars>>
    \/ \E line \in Commands : Command(line) /\ UNCHANGED <<pidVars, cliVars, moreVars>>
    \/ ClientWrite /\ UNCHANGED <<pidVars, cliVars, moreVars>>
    \/ \E k \in 1 .. SockBuf : ClientRead(k) /\ UNCHANGED <<pidVars, cliVars, moreVars>>
    \/ ClientReturn /\ UNCHANGED <<pidVars, cliVars, moreVars>>
    \/ ClientClose /\ UNCHANGED <<pidVars, cliVars, moreVars>>

SpecCtrl == InitService /\ [][NextCtrl]_vars

\* Log rotation asked for over both routes: the main process receiving
\* SIGHUP and serving a client that sends logrotate requests.
NextRotate ==
    \/ Boot /\ UNCHANGED <<pidVars, ctrlVars, cliVars, moreVars>>
    \/ ProcessBegin(mainPid) /\ UNCHANGED <<pidVars, ctrlVars, cliVars, moreVars>>
    \/ ProcessEnd(mainPid) /\ UNCHANGED <<pidVars, ctrlVars, cliVars, moreVars>>
    \/ signal(mainPid, "SIGHUP") /\ UNCHANGED <<pidVars, ctrlVars, cliVars, moreVars>>
    \/ newCtrlConnection /\ UNCHANGED <<pidVars, cliVars, moreVars>>
    \/ ReadSome /\ UNCHANGED <<pidVars, cliVars, moreVars>>
    \/ \E o \in OwnerChoices : lineRead(o) /\ UNCHANGED <<pidVars, cliVars, moreVars>>
    \/ WriteSome /\ UNCHANGED <<pidVars, cliVars, moreVars>>
    \/ handleWrite /\ UNCHANGED <<pidVars, cliVars, moreVars>>
    \/ Connect /\ UNCHANGED <<pidVars, cliVars, moreVars>>
    \/ \E line \in {V_logrotate, <<"!">> \o V_logrotate, V_stat} :
          Command(line) /\ UNCHANGED <<pidVars, cliVars, moreVars>>
    \/ ClientWrite /\ UNCHANGED <<pidVars, cliVars, moreVars>>
    \/ \E k \in 1 .. SockBuf : ClientRead(k) /\ UNCHANGED <<pidVars, cliVars, moreVars>>
    \/ ClientReturn /\ UNCHANGED <<pidVars, cliVars, moreVars>>

SpecRotate == InitService /\ [][NextRotate]_vars

\* The control channel with a client that sends requests behind one
\* another without waiting for the replies.
NextPipe ==
    \/ Boot /\ UNCHANGED <<pidVars, ctrlVars, cliVars, moreVars>>
    \/ ProcessBegin(mainPid) /\ UNCHANGED <<pidVars, ctrlVars, cliVars, moreVars>>
    \/ ProcessEnd(mainPid) /\ UNCHANGED <<pidVars, ctrlVars, cliVars, moreVars>>
    \/ newCtrlConnection /\ UNCHANGED <<pidVars, cliVars, moreVars>>
    \/ ReadSome /\ UNCHANGED <<pidVars, cliVars, moreVars>>
    \/ \E o \in OwnerChoices : lineRead(o) /\ UNCHANGED <<pidVars, cliVars, moreVars>>
    \/ lineReadEof /\ UNCHANGED <<pidVars, cliVars, moreVars>>
    \/ WriteSome /\ UNCHANGED <<pidVars, cliVars, moreVars>>
    \/ handleWrite /\ UNCHANGED <<pidVars, cliVars, moreVars>>
    \/ Connect /\ UNCHANGED <<pidVars, cliVars, moreVars>>
    \/ \E line \in Batches : Command(line) /\ UNCHANGED <<pidVars, cliVars, moreVars>>
    \/ ClientWrite /\ UNCHANGED <<pidVars, cliVars, moreVars>>
    \/ \E k \in 1 .. SockBuf : ClientRead(k) /\ UNCHANGED <<pidVars, cliVars, moreVars>>
    \/ ClientReturn /\ UNCHANGED <<pidVars, cliVars, moreVars>>
    \/ ClientClose /\ UNCHANGED <<pidVars, cliVars, moreVars>>

SpecPipe == InitService /\ [][NextPipe]_vars

\* The state before the --signal tool is run, for every user and service.
InitSignal ==
    /\ InitPid /\ InitSig /\ InitCtrl /\ InitMore
    /\ \E d \in {"none", "open", "kill"}, i \in 0 .. MaxIgnored : CliIdle(d, i)

\* The --signal tool run once against a service that starts, runs and ends.
NextCli ==
    \/ allocate(svc) /\ UNCHANGED <<sigVars, ctrlVars, cliVars, moreVars>>
    \/ ServiceEnds /\ UNCHANGED <<sigVars, ctrlVars, moreVars>>
    \/ StrayEnds /\ UNCHANGED <<sigVars, ctrlVars, cliVars, moreVars>>
    \/ \E a \in Args : sendSignal(a) /\ UNCHANGED <<pidVars, sigVars, ctrlVars, moreVars>>
    \/ waitForStop /\ UNCHANGED <<pidVars, sigVars, ctrlVars, moreVars>>
    \/ Sleep /\ UNCHANGED <<pidVars, sigVars, ctrlVars, moreVars>>

SpecCli == InitSignal /\ [][NextCli]_vars

\* Two processes racing through allocate() on one path.
NextAlloc ==
    \E p \in Racers :
       \/ allocate(p) /\ UNCHANGED <<sigVars, ctrlVars, cliVars, moreVars>>
       \/ Exit(p) /\ UNCHANGED <<sigVars, ctrlVars, cliVars, moreVars>>

SpecAlloc == Init /\ [][NextAlloc]_vars

\* A process constructing a ScopedPidFile on a path that another process
\* allocates, holds and gives up by ending.
NextScoped ==
    \/ allocate(holder) /\ UNCHANGED <<sigVars, ctrlVars, cliVars, moreVars>>
    \/ Exit(holder) /\ UNCHANGED <<sigVars, ctrlVars, cliVars, moreVars>>
    \/ \E w \in 0 .. MaxWait, c \in 0 .. (PeriodsPerSecond - 1) :
          /\ ScopedPidFile(w, c)
          /\ UNCHANGED <<pidVars, sigVars, ctrlVars, cliVars, notifierVars, lateVars>>
    \/ ScopedAllocate /\ UNCHANGED <<sigVars, ctrlVars, cliVars, moreVars>>
    \/ Constructed /\ UNCHANGED <<pidVars, sigVars, ctrlVars, cliVars, notifierVars, lateVars>>
    \/ Caught /\ UNCHANGED <<pidVars, sigVars, ctrlVars, cliVars, notifierVars, lateVars>>
    \/ Propagated /\ UNCHANGED <<pidVars, sigVars, ctrlVars, cliVars, notifierVars, lateVars>>
    \/ Usleep /\ UNCHANGED <<sigVars, ctrlVars, cliVars, notifierVars, lateVars>>
    \/ ScopedDestroy
         /\ UNCHANGED <<sigVars, ctrlVars, cliVars, notifierVars, lateVars>>

SpecScoped == Init /\ [][NextScoped]_vars

\* Everything but the notifier pipe.
restOfNotifier == <<pidVars, sigVars, ctrlVars, cliVars, scopedVars, lateVars>>

\* A slave process writing notifications and a master process reading
\* them, both interrupted by signals, until the Runnable is stopped.
NextNotifier ==
    \/ \E s \in Payload : slave(s) /\ UNCHANGED restOfNotifier
    \/ SlaveWrite /\ UNCHANGED restOfNotifier
    \/ SlaveInterrupted /\ UNCHANGED restOfNotifier
    \/ master /\ UNCHANGED restOfNotifier
    \/ MasterRead /\ UNCHANGED restOfNotifier
    \/ MasterInterrupted /\ UNCHANGED restOfNotifier
    \/ RunnableStops /\ UNCHANGED restOfNotifier

SpecNotifier == Init /\ [][NextNotifier]_vars

\* Everything but the TCP control client.
restOfNet == <<pidVars, sigVars, ctrlVars, cliVars, scopedVars, notifierVars, lifeVars, lastVars>>

\* A NetCtrlClient is constructed against a peer that answers each request
\* with one of NetReplies, and is then used for user commands.
NextNet ==
    \/ \E c \in Components, s \in Secrets : Detail(c, s) /\ UNCHANGED restOfNet
    \/ \E r \in NetReplies : ReadChallenge(r) /\ UNCHANGED restOfNet
    \/ \E r \in NetReplies : ReadNoChallenge(r) /\ UNCHANGED restOfNet
    \/ SendResponse /\ UNCHANGED restOfNet
    \/ \E r \in NetReplies : ReadVerdict(r) /\ UNCHANGED restOfNet
    \/ \E c \in UserCommands : UserCommand(c) /\ UNCHANGED restOfNet
    \/ \E r \in NetReplies : UserReply(r) /\ UNCHANGED restOfNet

SpecNet == Init /\ [][NextNet]_vars

(***************************************************************************)
(* The steps of Service::operator()                                        *)
(***************************************************************************)

\* The state of the instance started first: "live" while it owns the pid
\* file, "stopped" once it has ended, else "none".
FirstInstance ==
    IF apc[holder] = "exited" \/ reused THEN "stopped"
    ELSE IF Owner(holder) THEN "live" ELSE "none"

\* The pid of an ended process is given to a new, unrelated process.
Reuse ==
    /\ apc[holder] = "exited"
    /\ apc' = [apc EXCEPT ![holder] = "idle"]
    /\ reused' = TRUE
    /\ UNCHANGED <<path, made, content, lock, fd, pid, liveAtStart, solo,
                   verdict>>
    /\ UNCHANGED <<dpc, daemonize, exitCode, cleanup, handling, hook,
                   termAtReturn, trace>>
    /\ UNCHANGED daemonVars

\* Lines 468-496 with Service::preConfigHook (402-417) for a normal start
\* with a pid file: pidfile::signal(path, 0) throws, names a running
\* instance, or lets the start go on.
Configure(d) ==
    /\ dpc = "configure"
    /\ daemonize' = d
    /\ LET r == pidfile_signal(0, FALSE) IN
         /\ hook' = [ret |-> r.ret, thrown |-> r.thrown,
                     first |-> FirstInstance]
         /\ IF r.thrown \/ r.ret # 0
               THEN /\ dpc' = "exited"
                    /\ exitCode' = EXIT_FAILURE
                    /\ starter' = (IF d THEN "exited" ELSE starter)
                    /\ starterCode' = (IF d THEN EXIT_FAILURE ELSE starterCode)
               ELSE /\ dpc' = (IF d THEN "fork1" ELSE "allocate")
                    /\ UNCHANGED <<exitCode, starter, starterCode>>
    /\ UNCHANGED <<cleanup, handling, reused, termAtReturn, trace>>
    /\ UNCHANGED <<inter, interCode, n1w, n2w, daemonizeFinishRun>>

\* Lines 521-544: the pipes are made and the first fork succeeds; the
\* starter closes notifier1[1] and both ends of notifier2 and waits, the
\* child holds both write ends.
Fork1 ==
    /\ dpc = "fork1"
    /\ starter' = "waiting"
    /\ inter' = "forking"
    /\ n1w' = {intermediate}
    /\ n2w' = {intermediate}
    /\ dpc' = "fork2"
    /\ UNCHANGED <<daemonize, exitCode, cleanup, handling, reused, hook,
                   termAtReturn, trace>>
    /\ UNCHANGED <<starterCode, interCode, daemonizeFinishRun>>

\* Lines 534-538: the first fork fails and operator() returns.
Fork1Fails ==
    /\ dpc = "fork1"
    /\ starter' = "exited"
    /\ starterCode' = EXIT_FAILURE
    /\ dpc' = "exited"
    /\ exitCode' = EXIT_FAILURE
    /\ UNCHANGED <<daemonize, cleanup, handling, reused, hook, termAtReturn,
                   trace>>
    /\ UNCHANGED <<inter, interCode, n1w, n2w, daemonizeFinishRun>>

\* Lines 559-588: setsid and the second fork succeed; the intermediate
\* process closes notifier2[1] and waits, the daemon closes both ends of
\* notifier1 and notifier2[0] and keeps notifier2[1] as notifierFd.
Fork2 ==
    /\ dpc = "fork2"
    /\ inter' = "waiting"
    /\ n1w' = {intermediate}
    /\ n2w' = {daemon}
    /\ dpc' = "allocate"
    /\ UNCHANGED <<daemonize, exitCode, cleanup, handling, reused, hook,
                   termAtReturn, trace>>
    /\ UNCHANGED <<starter, starterCode, interCode, daemonizeFinishRun>>

\* Lines 559-569: setsid or the second fork fails; the intermediate process
\* calls _exit(EXIT_FAILURE), which closes its descriptors, and there is no
\* daemon.
Fork2Fails ==
    /\ dpc = "fork2"
    /\ inter' = "exited"
    /\ interCode' = EXIT_FAILURE
    /\ n1w' = {}
    /\ n2w' = {}
    /\ dpc' = "none"
    /\ UNCHANGED <<daemonize, exitCode, cleanup, handling, reused, hook,
                   termAtReturn, trace>>
    /\ UNCHANGED <<starter, starterCode, daemonizeFinishRun>>

\* waitForChildInitialization(fd) on a pipe whose write end the processes w
\* hold: nothing is ever written, so read blocks while w is not empty and
\* returns 0 afterwards, and the function returns true (line 349).
waitForChildInitialization(w) ==
    IF w = {} THEN "true" ELSE "blocked"

\* Lines 547-554: the starter's wait is over and it calls _exit.
StarterRead ==
    /\ starter = "waiting"
    /\ waitForChildInitialization(n1w) # "blocked"
    /\ starter' = "exited"
    /\ starterCode' = (IF waitForChildInitialization(n1w) = "true"
                          THEN EXIT_SUCCESS ELSE EXIT_FAILURE)
    /\ UNCHANGED driverVars
    /\ UNCHANGED <<inter, interCode, n1w, n2w, daemonizeFinishRun>>

\* Lines 575-579: the intermediate process's wait is over and it calls
\* _exit, which closes its notifier1[1].
IntermediateRead ==
    /\ inter = "waiting"
    /\ waitForChildInitialization(n2w) # "blocked"
    /\ inter' = "exited"
    /\ interCode' = (IF waitForChildInitialization(n2w) = "true"
                        THEN EXIT_SUCCESS ELSE EXIT_FAILURE)
    /\ n1w' = n1w \ {intermediate}
    /\ UNCHANGED driverVars
    /\ UNCHANGED <<starter, starterCode, n2w, daemonizeFinishRun>>

\* Lines 601-608: pidfile::allocate has returned.
Allocated ==
    /\ dpc = "allocate"
    /\ apc[svc] = "done"
    /\ dpc' = "handler"
    /\ UNCHANGED <<daemonize, exitCode, cleanup, handling, reused, hook,
                   termAtReturn, trace>>
    /\ UNCHANGED daemonVars

\* Lines 605-608: pidfile::allocate has thrown.
AllocateFailed ==
    /\ dpc = "allocate"
    /\ apc[svc] \in {"already", "syserr"}
    /\ exitCode' = EXIT_FAILURE
    /\ dpc' = "return"
    /\ UNCHANGED <<daemonize, cleanup, handling, reused, hook, termAtReturn,
                   trace>>
    /\ UNCHANGED daemonVars

\* Lines 625-637: the SignalHandler is made and the persona switched.
Persona ==
    /\ dpc = "handler"
    /\ dpc' = "boot"
    /\ UNCHANGED <<daemonize, exitCode, cleanup, handling, reused, hook,
                   termAtReturn, trace>>
    /\ UNCHANGED daemonVars

\* Lines 633-635: the persona switch throws.
PersonaFails ==
    /\ dpc = "handler"
    /\ exitCode' = EXIT_FAILURE
    /\ dpc' = "return"
    /\ UNCHANGED <<daemonize, cleanup, handling, reused, hook, termAtReturn,
                   trace>>
    /\ UNCHANGED daemonVars

\* Lines 640-649: globalTerminate(true), ScopedHandler's constructor
\* (SignalHandler::start()), and start() is called.
Started ==
    /\ dpc = "boot"
    /\ Boot
    /\ handling' = "on"
    /\ trace' = Append(trace, "start")
    /\ dpc' = "start"
    /\ UNCHANGED <<daemonize, exitCode, cleanup, reused, hook, termAtReturn>>
    /\ UNCHANGED daemonVars

\* Line 649: start() returns its Cleanup handle.
StartReturns ==
    /\ dpc = "start"
    /\ ppc[mainPid] = "user"
    /\ cleanup' = "held"
    /\ trace' = Append(trace, "returned")
    /\ termAtReturn' = (terminated \/ thisTerminated[mainPid])
    /\ dpc' = "started"
    /\ UNCHANGED <<daemonize, exitCode, handling, reused, hook>>
    /\ UNCHANGED daemonVars

\* Lines 650-656: start() throws immediate_exit(c); `cleanup' is empty.
StartThrows(c) ==
    /\ dpc = "start"
    /\ ppc[mainPid] = "user"
    /\ exitCode' = c
    /\ dpc' = "stopping"
    /\ UNCHANGED <<daemonize, cleanup, handling, reused, hook, termAtReturn,
                   trace>>
    /\ UNCHANGED daemonVars

\* Line 658: isRunning() calls SignalHandler::process().
Service_isRunning ==
    /\ dpc = "started"
    /\ ProcessBegin(mainPid)
    /\ dpc' = "polling"
    /\ UNCHANGED <<daemonize, exitCode, cleanup, handling, reused, hook,
                   termAtReturn, trace>>
    /\ UNCHANGED daemonVars

\* A faulty check that goes on whatever isRunning() says.
RunningNotChecked ==
    /\ dpc = "polling"
    /\ ProcessEnd(mainPid)
    /\ dpc' = (IF daemonize THEN "finish" ELSE "run")
    /\ trace' = (IF daemonize THEN trace ELSE Append(trace, "run"))
    /\ UNCHANGED <<daemonize, exitCode, cleanup, handling, reused, hook,
                   termAtReturn>>
    /\ UNCHANGED daemonVars

\* Lines 658-667: process() returns; `Terminated during startup' if it says
\* to stop, else daemonizeFinish() in daemon mode, else run() is called.
RunningChecked ==
    /\ dpc = "polling"
    /\ ProcessEnd(mainPid)
    /\ IF result'[mainPid] = "stop"
          THEN /\ exitCode' = EXIT_FAILURE
               /\ dpc' = "destroy"
               /\ UNCHANGED trace
          ELSE /\ dpc' = (IF daemonize THEN "finish" ELSE "run")
               /\ trace' = (IF daemonize THEN trace ELSE Append(trace, "run"))
               /\ UNCHANGED exitCode
    /\ UNCHANGED <<daemonize, cleanup, handling, reused, hook, termAtReturn>>
    /\ UNCHANGED daemonVars

\* Lines 663-667 and 359-383: daemonizeFinish() closes notifierFd; then
\* run() is called.
daemonizeFinish ==
    /\ dpc = "finish"
    /\ n2w' = n2w \ {daemon}
    /\ daemonizeFinishRun' = TRUE
    /\ trace' = Append(trace, "run")
    /\ dpc' = "run"
    /\ UNCHANGED <<daemonize, exitCode, cleanup, handling, reused, hook,
                   termAtReturn>>
    /\ UNCHANGED <<starter, starterCode, inter, interCode, n1w>>

\* Line 667: run() returns c.
RunReturns(c) ==
    /\ dpc = "run"
    /\ ppc[mainPid] = "user"
    /\ exitCode' = c
    /\ dpc' = "destroy"
    /\ UNCHANGED <<daemonize, cleanup, handling, reused, hook, termAtReturn,
                   trace>>
    /\ UNCHANGED daemonVars

\* A faulty end of the block that lets go of the handle without destroying
\* what it holds.
CleanupLeaked ==
    /\ dpc = "destroy"
    /\ dpc' = "stopping"
    /\ UNCHANGED <<daemonize, exitCode, cleanup, handling, reused, hook,
                   termAtReturn, trace>>
    /\ UNCHANGED daemonVars

\* Lines 660 and 668: the block is left; `cleanup', declared last, is
\* destroyed first.
CleanupDestroyed ==
    /\ dpc = "destroy"
    /\ cleanup' = "destroyed"
    /\ trace' = Append(trace, "cleanup")
    /\ dpc' = "stopping"
    /\ UNCHANGED <<daemonize, exitCode, handling, reused, hook, termAtReturn>>
    /\ UNCHANGED daemonVars

\* ... and then `signals': ~ScopedHandler calls SignalHandler::stop(), which
\* cancels the signal wait and closes the control acceptor.
ScopedHandlerDestroyed ==
    /\ dpc = "stopping"
    /\ handling' = "stopped"
    /\ trace' = Append(trace, "stop")
    /\ dpc' = "return"
    /\ UNCHANGED <<daemonize, exitCode, cleanup, reused, hook, termAtReturn>>
    /\ UNCHANGED daemonVars

\* operator() returns (lines 607, 634, 655, 660, 676) and the process ends:
\* its descriptors are closed and its lock on the pid file is gone.
Returned ==
    /\ dpc = "return"
    /\ dpc' = "exited"
    /\ n2w' = n2w \ {daemon}
    /\ apc' = [apc EXCEPT ![svc] = IF Owner(svc) THEN "exited" ELSE @]
    /\ lock' = [i \in Inode |-> IF lock[i] = svc THEN 0 ELSE lock[i]]
    /\ fd' = [fd EXCEPT ![svc] = NoFile]
    /\ UNCHANGED <<path, made, content, pid, liveAtStart, solo, verdict>>
    /\ UNCHANGED <<daemonize, exitCode, cleanup, handling, reused, hook,
                   termAtReturn, trace>>
    /\ UNCHANGED <<starter, starterCode, inter, interCode, n1w,
                   daemonizeFinishRun>>

\* The state of the control channel, the command-line tool and the other
\* components, which a start of the service leaves alone.
aside == <<ctrlVars, cliVars, scopedVars, notifierVars, netVars, lastVars>>

\* The code of start() and run() is running in the main process.
InUserCode == dpc \in {"start", "run"}

\* A service is started, in the foreground or as a daemon, while an instance
\* started before it allocates the pid file, runs and ends; signals arrive
\* and the user's code stops the service.
NextLife ==
    \/ ~reused /\ allocate(holder) /\ UNCHANGED <<sigVars, lifeVars, aside>>
    \/ Exit(holder) /\ UNCHANGED <<sigVars, lifeVars, aside>>
    \/ Reuse /\ UNCHANGED <<sigVars, aside>>
    \/ \E d \in BOOLEAN : Configure(d) /\ UNCHANGED <<pidVars, sigVars, aside>>
    \/ Fork1 /\ UNCHANGED <<pidVars, sigVars, aside>>
    \/ Fork1Fails /\ UNCHANGED <<pidVars, sigVars, aside>>
    \/ Fork2 /\ UNCHANGED <<pidVars, sigVars, aside>>
    \/ Fork2Fails /\ UNCHANGED <<pidVars, sigVars, aside>>
    \/ StarterRead /\ UNCHANGED <<pidVars, sigVars, aside>>
    \/ IntermediateRead /\ UNCHANGED <<pidVars, sigVars, aside>>
    \/ dpc = "allocate" /\ allocate(svc) /\ UNCHANGED <<sigVars, lifeVars, aside>>
    \/ Allocated /\ UNCHANGED <<pidVars, sigVars, aside>>
    \/ AllocateFailed /\ UNCHANGED <<pidVars, sigVars, aside>>
    \/ Persona /\ UNCHANGED <<pidVars, sigVars, aside>>
    \/ PersonaFails /\ UNCHANGED <<pidVars, sigVars, aside>>
    \/ Started /\ UNCHANGED <<pidVars, aside>>
    \/ InUserCode /\ stop(mainPid) /\ UNCHANGED <<pidVars, lifeVars, aside>>
    \/ InUserCode /\ ProcessBegin(mainPid) /\ UNCHANGED <<pidVars, lifeVars, aside>>
    \/ \E signo \in Signals :
          signal(mainPid, signo) /\ UNCHANGED <<pidVars, lifeVars, aside>>
    \/ InUserCode /\ ProcessEnd(mainPid) /\ UNCHANGED <<pidVars, lifeVars, aside>>
    \/ StartReturns /\ UNCHANGED <<pidVars, sigVars, aside>>
    \/ \E c \in {EXIT_SUCCESS, EXIT_FAILURE} :
          StartThrows(c) /\ UNCHANGED <<pidVars, sigVars, aside>>
    \/ Service_isRunning /\ UNCHANGED <<pidVars, aside>>
    \/ RunningChecked /\ UNCHANGED <<pidVars, aside>>
    \/ daemonizeFinish /\ UNCHANGED <<pidVars, sigVars, aside>>
    \/ \E c \in {EXIT_SUCCESS, EXIT_FAILURE} :
          RunReturns(c) /\ UNCHANGED <<pidVars, sigVars, aside>>
    \/ CleanupDestroyed /\ UNCHANGED <<pidVars, sigVars, aside>>
    \/ ScopedHandlerDestroyed /\ UNCHANGED <<pidVars, sigVars, aside>>
    \/ Returned /\ UNCHANGED <<sigVars, aside>>

SpecLife == Init /\ [][NextLife]_vars

\* The control socket exists: from the SignalHandler's constructor to
\* SignalHandler::stop().
Listening ==
    dpc \in {"boot", "start", "started", "polling", "finish", "run",
             "destroy", "stopping"}

\* What a start of the service leaves alone when no other instance is
\* about.
besides == <<cliVars, scopedVars, notifierVars, netVars, lastVars>>

\* The signals sent to the service: one that asks it to terminate and one
\* that does not.
RunSignals == {"SIGTERM", "SIGHUP"}

\* A service is started with a pid file no other process uses; signals
\* arrive, a control client asks it to terminate (and does not read the
\* reply) and the user's code stops it, during start() and during run().
NextRun ==
    \/ \E d \in BOOLEAN :
          Configure(d) /\ UNCHANGED <<pidVars, sigVars, ctrlVars, besides>>
    \/ Fork1 /\ UNCHANGED <<pidVars, sigVars, ctrlVars, besides>>
    \/ Fork1Fails /\ UNCHANGED <<pidVars, sigVars, ctrlVars, besides>>
    \/ Fork2 /\ UNCHANGED <<pidVars, sigVars, ctrlVars, besides>>
    \/ Fork2Fails /\ UNCHANGED <<pidVars, sigVars, ctrlVars, besides>>
    \/ StarterRead /\ UNCHANGED <<pidVars, sigVars, ctrlVars, besides>>
    \/ IntermediateRead /\ UNCHANGED <<pidVars, sigVars, ctrlVars, besides>>
    \/ /\ dpc = "allocate"
       /\ allocate(svc)
       /\ UNCHANGED <<sigVars, ctrlVars, lifeVars, besides>>
    \/ Allocated /\ UNCHANGED <<pidVars, sigVars, ctrlVars, besides>>
    \/ Persona /\ UNCHANGED <<pidVars, sigVars, ctrlVars, besides>>
    \/ PersonaFails /\ UNCHANGED <<pidVars, sigVars, ctrlVars, besides>>
    \/ Started /\ UNCHANGED <<pidVars, ctrlVars, besides>>
    \/ /\ InUserCode
       /\ stop(mainPid)
       /\ UNCHANGED <<pidVars, ctrlVars, lifeVars, besides>>
    \/ /\ InUserCode
       /\ ProcessBegin(mainPid)
       /\ UNCHANGED <<pidVars, ctrlVars, lifeVars, besides>>
    \/ \E signo \in RunSignals :
          /\ signal(mainPid, signo)
          /\ UNCHANGED <<pidVars, ctrlVars, lifeVars, besides>>
    \/ /\ InUserCode
       /\ ProcessEnd(mainPid)
       /\ UNCHANGED <<pidVars, ctrlVars, lifeVars, besides>>
    \/ StartReturns /\ UNCHANGED <<pidVars, sigVars, ctrlVars, besides>>
    \/ \E c \in {EXIT_SUCCESS, EXIT_FAILURE} :
          StartThrows(c) /\ UNCHANGED <<pidVars, sigVars, ctrlVars, besides>>
    \/ Service_isRunning /\ UNCHANGED <<pidVars, ctrlVars, besides>>
    \/ RunningChecked /\ UNCHANGED <<pidVars, ctrlVars, besides>>
    \/ daemonizeFinish /\ UNCHANGED <<pidVars, sigVars, ctrlVars, besides>>
    \/ \E c \in {EXIT_SUCCESS, EXIT_FAILURE} :
          RunReturns(c) /\ UNCHANGED <<pidVars, sigVars, ctrlVars, besides>>
    \/ CleanupDestroyed /\ UNCHANGED <<pidVars, sigVars, ctrlVars, besides>>
    \/ ScopedHandlerDestroyed
          /\ UNCHANGED <<pidVars, sigVars, ctrlVars, besides>>
    \/ Returned /\ UNCHANGED <<sigVars, ctrlVars, besides>>
    \/ Listening /\ Connect /\ UNCHANGED <<pidVars, lifeVars, besides>>
    \/ Command(V_terminate) /\ UNCHANGED <<pidVars, lifeVars, besides>>
    \/ ClientWrite /\ UNCHANGED <<pidVars, lifeVars, besides>>
    \/ newCtrlConnection /\ UNCHANGED <<pidVars, lifeVars, besides>>
    \/ ReadSome /\ UNCHANGED <<pidVars, lifeVars, besides>>
    \/ \E o \in OwnerChoices :
          lineRead(o) /\ UNCHANGED <<pidVars, lifeVars, besides>>

SpecRun == Init /\ [][NextRun]_vars

\* Everything but the pid file manager.
restOfFault == <<sigVars, ctrlVars, cliVars, scopedVars, notifierVars,
                 netVars, lifeVars, statVars, forkVars, acceptVars, orderVars, startVars>>

\* Two processes call pidfile::allocate; any of its system calls after the
\* stale test may fail.
NextFault ==
    \E p \in Racers :
       \/ Called(p) /\ UNCHANGED restOfFault
       \/ Open1Fails(p) /\ UNCHANGED restOfFault
       \/ /\ apc[p] # "idle"
          /\ allocate(p)
          /\ UNCHANGED <<before, restOfFault>>
       \/ Open3Fails(p) /\ UNCHANGED restOfFault
       \/ LockFails(p) /\ UNCHANGED restOfFault
       \/ FdopenFails(p) /\ UNCHANGED restOfFault
       \/ Exit(p) /\ UNCHANGED <<before, restOfFault>>

SpecFault == Init /\ [][NextFault]_vars

\* Everything but the termination region and the count of processStat().
restOfStat == <<pidVars, ctrlVars, cliVars, scopedVars, notifierVars,
                netVars, lifeVars, faultVars, forkVars, acceptVars, orderVars, startVars>>

\* SignalHandler::process(), lines 152-180.  Lines 172-176 are one block:
\* owner_.processStat() is called exactly when lastStatEvent_ is assigned.
process(p) ==
    /\ ProcessEnd(p)
    /\ processStat' = [processStat EXCEPT ![p] =
                          IF lastStatEvent'[p] # lastStatEvent[p]
                             THEN @ + 1 ELSE @]

\* The signals that ask for log rotation and for statistics.
EventSignals == {"SIGHUP", "SIGUSR1"}

\* The main process and its forked worker receive event signals and call
\* process().
NextStat ==
    \/ Boot /\ UNCHANGED <<statVars, restOfStat>>
    \/ \E p \in SvcProc :
         \/ ProcessBegin(p) /\ UNCHANGED <<statVars, restOfStat>>
         \/ \E signo \in EventSignals :
               signal(p, signo) /\ UNCHANGED <<statVars, restOfStat>>
         \/ process(p) /\ UNCHANGED restOfStat
         \/ \E c \in SvcProc : Fork(p, c) /\ UNCHANGED <<statVars, restOfStat>>

SpecStat == InitService /\ [][NextStat]_vars

\* Everything but the termination region, the control channel and the
\* worker's copies.
restOfFork == <<pidVars, cliVars, scopedVars, notifierVars, netVars,
                lifeVars, faultVars, statVars, acceptVars, orderVars, startVars>>

\* The requests the client of this specification sends.
ForkCommands == {V_logrotate, V_terminate}

\* The main process serves a control client and forks a worker; both call
\* process().
NextFork ==
    \/ Boot /\ UNCHANGED <<ctrlVars, forkVars, restOfFork>>
    \/ \E p \in SvcProc :
          ProcessBegin(p) /\ UNCHANGED <<ctrlVars, forkVars, restOfFork>>
    \/ ProcessEnd(mainPid) /\ UNCHANGED <<ctrlVars, forkVars, restOfFork>>
    \/ /\ ~ChildReady
       /\ ProcessEnd(workerPid)
       /\ UNCHANGED <<ctrlVars, forkVars, restOfFork>>
    \/ ForkWorker /\ UNCHANGED <<ctrlVars, restOfFork>>
    \/ Connect /\ UNCHANGED <<forkVars, restOfFork>>
    \/ \E line \in ForkCommands : Command(line) /\ UNCHANGED <<forkVars, restOfFork>>
    \/ ClientWrite /\ UNCHANGED <<forkVars, restOfFork>>
    \/ newCtrlConnection /\ UNCHANGED <<forkVars, restOfFork>>
    \/ ReadSome /\ UNCHANGED <<forkVars, restOfFork>>
    \/ lineRead(NoOwner) /\ UNCHANGED <<forkVars, restOfFork>>
    \/ ChildAcceptAborted /\ UNCHANGED <<sigVars, ctrlVars, restOfFork>>
    \/ ChildReadSome /\ UNCHANGED <<sigVars, restOfFork>>
    \/ ChildLineRead /\ UNCHANGED restOfFork

SpecFork == InitService /\ [][NextFork]_vars

\* Everything but the acceptor and its connections.
restOfAccept == <<pidVars, sigVars, ctrlVars, cliVars, scopedVars,
                  notifierVars, netVars, lifeVars, faultVars, statVars, orderVars, startVars>>

\* The control socket of a running service: clients come and go, accepts
\* and connections fail, the handler is stopped in the end.
NextAccept ==
    \/ SignalHandler_start /\ UNCHANGED restOfAccept
    \/ \E c \in Con :
         \/ PeerConnects(c) /\ UNCHANGED restOfAccept
         \/ Accepted(c) /\ UNCHANGED restOfAccept
         \/ RequestServed(c) /\ UNCHANGED restOfAccept
         \/ lineReadError(c) /\ UNCHANGED restOfAccept
         \/ handleWriteOf(c) /\ UNCHANGED restOfAccept
    \/ AcceptFailed /\ UNCHANGED restOfAccept
    \/ SignalHandler_stop /\ UNCHANGED restOfAccept
    \/ AcceptAborted /\ UNCHANGED restOfAccept

SpecAccept == InitService /\ [][NextAccept]_vars

\* Everything but the termination region, the control channel and the wire.
restOfOrder == <<pidVars, cliVars, scopedVars, notifierVars, netVars,
                 lifeVars, faultVars, statVars, forkVars, acceptVars, startVars>>

\* Two request lines sent in one go.
Pipelined == { <<"x", NL, "x">> }

\* What the user's code does for the requests of this specification.
OrderChoices ==
    {o \in OwnerChoices : o.ret = "true" /\ Len(o.text) <= 3}

\* The control channel with a client that sends two requests at once and
\* then reads the replies.
NextOrder ==
    \/ Boot /\ UNCHANGED <<ctrlVars, orderVars, restOfOrder>>
    \/ ProcessBegin(mainPid) /\ UNCHANGED <<ctrlVars, orderVars, restOfOrder>>
    \/ ProcessEnd(mainPid) /\ UNCHANGED <<ctrlVars, orderVars, restOfOrder>>
    \/ newCtrlConnection /\ UNCHANGED <<orderVars, restOfOrder>>
    \/ ReadSome /\ UNCHANGED <<orderVars, restOfOrder>>
    \/ \E o \in OrderChoices : lineReadWrites(o) /\ UNCHANGED restOfOrder
    \/ WriteSomeWrites /\ UNCHANGED <<sigVars, restOfOrder>>
    \/ handleWrite /\ UNCHANGED <<orderVars, restOfOrder>>
    \/ Connect /\ UNCHANGED <<orderVars, restOfOrder>>
    \/ \E line \in Pipelined : Command(line) /\ UNCHANGED <<orderVars, restOfOrder>>
    \/ ClientWrite /\ UNCHANGED <<orderVars, restOfOrder>>
    \/ \E k \in 1 .. SockBuf : ClientRead(k) /\ UNCHANGED <<orderVars, restOfOrder>>
    \/ ClientReturn /\ UNCHANGED <<orderVars, restOfOrder>>

SpecOrder == InitService /\ [][NextOrder]_vars

\* Everything but the helpers' driver.
restOfStartup == <<pidVars, sigVars, ctrlVars, cliVars, scopedVars,
                   notifierVars, netVars, lifeVars, faultVars, statVars,
                   forkVars, acceptVars, orderVars>>

\* One call of Service::operator() with every helper returning or raising
\* immediate_exit.
NextStartup ==
    \/ \E d \in BOOLEAN, p \in BOOLEAN :
          Configured(d, p) /\ UNCHANGED restOfStartup
    \/ \E h \in {"configuration", "preConfigHook"}, c \in ImmediateCodes :
          ConfigureRaises(h, c) /\ UNCHANGED restOfStartup
    \/ preDaemonize /\ UNCHANGED restOfStartup
    \/ \E c \in ImmediateCodes : preDaemonizeRaises(c) /\ UNCHANGED restOfStartup
    \/ Daemonized /\ UNCHANGED restOfStartup
    \/ PidFileAllocated /\ UNCHANGED restOfStartup
    \/ PidFileRefused /\ UNCHANGED restOfStartup
    \/ SignalHandlerCreated /\ UNCHANGED restOfStartup
    \/ prePersonaSwitch /\ UNCHANGED restOfStartup
    \/ \E c \in ImmediateCodes :
          prePersonaSwitchRaises(c) /\ UNCHANGED restOfStartup
    \/ switchPersona /\ UNCHANGED restOfStartup
    \/ switchPersonaThrows /\ UNCHANGED restOfStartup
    \/ postPersonaSwitch /\ UNCHANGED restOfStartup
    \/ \E c \in ImmediateCodes :
          postPersonaSwitchRaises(c) /\ UNCHANGED restOfStartup
    \/ \E b \in BOOLEAN : startReturned(b) /\ UNCHANGED restOfStartup
    \/ \E c \in ImmediateCodes : startRaises(c) /\ UNCHANGED restOfStartup
    \/ \E c \in ImmediateCodes : runReturned(c) /\ UNCHANGED restOfStartup

SpecStartup == InitService /\ [][NextStartup]_vars

(***************************************************************************)
(* Claims about the PID file manager                                       *)
(***************************************************************************)

\* C1: under any interleaving of allocate(path) calls by distinct processes,
\* at most one live process at a time has returned successfully from
\* allocate(path).
C1_AtMostOneOwner == Cardinality({p \in PidProc : Owner(p)}) <= 1

\* C2, second half: a process whose allocate(p) began while an earlier
\* successful caller was alive does not return successfully while that caller
\* is still alive (it raises AlreadyRunning instead).
C2_AliveMeansAlreadyRunning ==
    \A p \in PidProc : Owner(p) => \A q \in liveAtStart[p] : ~Owner(q)

\* C2, first half: an allocate(p) that begins when no live process owns the
\* pid file and that no other allocate overlaps succeeds.
C2_AfterExitSucceeds ==
    \A p \in PidProc :
        (solo[p] /\ liveAtStart[p] = {}) => apc[p] \notin {"already", "syserr"}

\* C2: for every successful allocate(p) by a process that then exits, a later
\* allocate(p) from another process succeeds; while the first process is
\* still alive, allocate(p) from another process raises AlreadyRunning.
C2_LaterAllocate == C2_AfterExitSucceeds /\ C2_AliveMeansAlreadyRunning

(***************************************************************************)
(* Claims about the termination region                                     *)
(***************************************************************************)

\* Process p returns from process().
Returns(p) == ppc[p] = "poll" /\ ppc'[p] = "user"

\* C3: when a process that is not in the terminator set handles SIGTERM or
\* SIGINT, its own thisTerminated becomes true, the shared terminated flag
\* stays false, and what process() answers in every other process does not
\* change.
C3_LocalTerminateOnly ==
    [][\A p \in SvcProc, signo \in {"SIGTERM", "SIGINT"} :
          (signal(p, signo) /\ ~find(p) /\ ~terminated)
             => /\ thisTerminated'[p]
                /\ ~terminated'
                /\ \A q \in SvcProc \ {p} :
                      (terminated' \/ thisTerminated'[q]) = thisTerminated[q]]_vars

\* A worker outside the set has handled a terminate signal, stops, and the
\* main process, asked afterwards, goes on.
C3_Witness ==
    /\ workerPid \in termDispatched
    /\ ~find(workerPid)
    /\ thisTerminated[workerPid]
    /\ result[workerPid] = "stop"
    /\ ~terminated
    /\ result[mainPid] = "continue"

\* The parent is in the terminator set, the worker it forked is not.
C4_Scenario == workerPid \in procs /\ find(mainPid) /\ ~find(workerPid)

\* C4: with the parent in the terminator set and the worker not in it (and
\* nobody calling stop()): as long as only the worker has handled SIGTERM,
\* the worker's process() reports stop and the parent's does not; once the
\* parent has handled SIGTERM, process() reports stop in both.
C4_WorkerLocalParentGlobal ==
    [][\A p \in SvcProc :
          (Returns(p) /\ C4_Scenario /\ ~stopCalled)
             => IF mainPid \in termDispatched
                   THEN result'[p] = "stop"
                   ELSE result'[p] = (IF p \in termDispatched THEN "stop"
                                                              ELSE "continue")]_vars

\* SIGTERM went to the parent only, and the worker's process() reports stop.
C4_Witness ==
    /\ C4_Scenario
    /\ termDispatched = {mainPid}
    /\ ~stopCalled
    /\ ~thisTerminated[workerPid]
    /\ result[workerPid] = "stop"
    /\ result[mainPid] = "stop"

\* C5: after globalTerminate(false, pid) the pid is not in the terminator
\* set (find is false, no slot holds it), and a terminate signal the process
\* handles then leaves the shared terminated flag alone.
C5_RemovedIsGone ==
    /\ [](\A q \in removed : ~find(q) /\ \A i \in Slot : pids[i] # q)
    /\ [][\A p \in SvcProc, signo \in {"SIGTERM", "SIGINT"} :
             (signal(p, signo) /\ p \in removed /\ ~terminated)
                => ~terminated']_vars

\* C6: every log-rotate request (the r-th increment of the counter) makes
\* exactly one process() call of each process invoke the log-rotate action:
\* no request is served twice by a process, none is served before it is
\* made, and when process() returns every request made before its check has
\* been served.
C6_RotateOncePerRequest ==
    /\ [](\A p \in procs, r \in ReqId :
             /\ rotated[p][r] <= 1
             /\ r > logRotateEvent => rotated[p][r] = 0)
    /\ [][\A p \in SvcProc :
             Returns(p) => \A r \in ReqId :
                              r <= logRotateEvent => rotated'[p][r] = 1]_vars

\* Two requests were made and both processes have served both.
C6_Witness ==
    /\ logRotateEvent = 2
    /\ workerPid \in procs
    /\ \A p \in SvcProc : rotated[p][1] = 1 /\ rotated[p][2] = 1
    /\ lastLogRotateEvent[mainPid] = 2
    /\ lastLogRotateEvent[workerPid] = 2

\* C7: once stop() has been called, the shared terminated flag is true and
\* stays true, and every process() that returns afterwards, in any process,
\* reports stop (isRunning() is false).
C7_StopIsFinal ==
    /\ [](stopCalled => terminated)
    /\ [][\A p \in SvcProc :
             (stopCalled /\ Returns(p)) => result'[p] = "stop"]_vars

\* stop() was called, no process handled a terminate signal, and both
\* processes have been told to stop.
C7_Witness ==
    /\ stopCalled
    /\ termDispatched = {}
    /\ workerPid \in procs
    /\ result[mainPid] = "stop"
    /\ result[workerPid] = "stop"

(***************************************************************************)
(* Claims about the control channel                                        *)
(***************************************************************************)

\* Number of bytes b in s.
Count(s, b) == Cardinality({i \in 1 .. Len(s) : s[i] = b})

\* C8: the reply to a command after which the connection stays open ends
\* with an EOT byte and holds no other one; the reply to exit and to a
\* `!'-command holds no EOT byte.
C8_OneEOTUnlessClosing ==
    served.no > 0
       => IF served.closing
             THEN Count(served.bytes, EOT) = 0
             ELSE /\ served.bytes # <<>>
                  /\ served.bytes[Len(served.bytes)] = EOT
                  /\ Count(served.bytes, EOT) = 1

\* The server has answered a plain command and then a `!'-command that
\* wrote a text, and has closed the connection.
C8_Witness ==
    /\ served.no = 2
    /\ served.closing
    /\ served.bytes # <<>>
    /\ answer.no = 2
    /\ sock = "closed"

\* The lines of a text: each run of bytes that a newline ends, and what
\* follows the last newline if that is not empty.
RECURSIVE LinesOf(_)
LinesOf(text) ==
    IF text = <<>> THEN <<>>
    ELSE IF Has(text, NL)
            THEN <<Take(text, First(text, NL) - 1)>>
                     \o LinesOf(Drop(text, First(text, NL)))
            ELSE <<text>>

\* The text of a block that ends with EOT: its bytes but the EOT.
TextOf(b) == Take(b.bytes, Len(b.bytes) - 1)

\* The first line of a text.
FirstLine(text) == IF Has(text, NL) THEN Take(text, First(text, NL) - 1) ELSE text

\* The text is an error reply.
IsError(text) ==
    /\ Len(FirstLine(text)) >= Len(ErrorPrefix)
    /\ \A i \in 1 .. Len(ErrorPrefix) : text[i] = ErrorPrefix[i]

C10_ErrorOrLines ==
    (answer.kind # "none" /\ served.no = answer.no /\ ~served.closing)
       => LET text == TextOf(served) IN
            IF IsError(text)
               THEN /\ answer.kind = "CtrlCommandError"
                    /\ answer.text = name \o <<":", " ">>
                                       \o Drop(FirstLine(text), Len(ErrorPrefix))
               ELSE /\ answer.kind = "lines"
                    /\ answer.lines = LinesOf(text)

\* A call raised the error of a command the service does not implement.
C10_Witness ==
    /\ answer.kind = "CtrlCommandError"
    /\ answer.text = name \o <<":", " ">> \o Drop(R_notimpl_head, Len(ErrorPrefix))
                         \o <<"x">> \o Take(R_notimpl_tail, Len(R_notimpl_tail) - 1)
    /\ served.no = answer.no

(***************************************************************************)
(* Claims about the control verbs                                          *)
(***************************************************************************)

\* s ends with t.
EndsWith(s, t) ==
    Len(s) >= Len(t) /\ SubSeq(s, Len(s) - Len(t) + 1, Len(s)) = t

\* The connection is open on the server's side and the next request line is
\* awaited (unless the client has gone).
StaysOpen == ~closed_ /\ (cstate # "gone" => sock = "open" /\ readOp)

\* "error: failed to execute command\n"
FailedLine ==
    <<"e", "r", "r", "o", "r", ":", " ", "f", "a", "i", "l", "e", "d", " ",
      "t", "o", " ", "e", "x", "e", "c", "u", "t", "e", " ", "c", "o", "m",
      "m", "a", "n", "d", NL>>

BuiltIn ==
    { <<"l", "o", "g", "r", "o", "t", "a", "t", "e">>,
      <<"t", "e", "r", "m", "i", "n", "a", "t", "e">>,
      <<"e", "x", "i", "t">>, <<"h", "e", "l", "p">>,
      <<"s", "t", "a", "t">>, <<"m", "o", "n", "i", "t", "o", "r">> }

\* "error: command <X> not implemented\n"
NotImplemented(X) ==
    <<"e", "r", "r", "o", "r", ":", " ", "c", "o", "m", "m", "a", "n", "d",
      " ", "<">>
        \o X \o
    <<">", " ", "n", "o", "t", " ", "i", "m", "p", "l", "e", "m", "e", "n",
      "t", "e", "d", NL>>

RotationScheduled ==
    <<"l", "o", "g", " ", "r", "o", "t", "a", "t", "i", "o", "n", " ", "s",
      "c", "h", "e", "d", "u", "l", "e", "d", NL>>

\* C14: a logrotate request, made by the control verb or by SIGHUP,
\* increments logRotateEvent; the verb replies "log rotation scheduled"; and
\* whenever the process is outside process() every request made so far has
\* had the log re-opened for it exactly once, that is within the process()
\* call that handled the request.
C14_RotateWithinTick ==
    /\ [][/\ (served'.no # served.no /\ served'.verb = <<"l", "o", "g", "r", "o", "t", "a", "t", "e">>)
             => /\ logRotateEvent' = logRotateEvent + 1
                /\ served'.bytes = RotationScheduled
                      \o (IF served'.closing THEN <<>> ELSE <<EOT>>)
          /\ sent' # sent => logRotateEvent' = logRotateEvent + 1]_vars
    /\ [](\A r \in ReqId :
             /\ rotated[mainPid][r] <= 1
             /\ ppc[mainPid] = "user"
                  => rotated[mainPid][r] = (IF r <= logRotateEvent THEN 1 ELSE 0))

\* A request by SIGHUP and one by the verb have both been served, the client
\* has its reply and the process is back in its own code.
C14_Witness ==
    /\ logRotateEvent = 2
    /\ sent = 1
    /\ served.verb = <<"l", "o", "g", "r", "o", "t", "a", "t", "e">>
    /\ answer.no = served.no
    /\ answer.kind = "lines"
    /\ answer.lines = <<Take(RotationScheduled, Len(RotationScheduled) - 1)>>
    /\ ppc[mainPid] = "user"
    /\ rotated[mainPid][1] = 1 /\ rotated[mainPid][2] = 1

\* "termination scheduled, bye\n"
TerminationScheduled ==
    <<"t", "e", "r", "m", "i", "n", "a", "t", "i", "o", "n", " ", "s", "c",
      "h", "e", "d", "u", "l", "e", "d", ",", " ", "b", "y", "e", NL>>

\* C15: the verb terminate sets the shared terminated flag, replies
\* "termination scheduled, bye", and the process() call that served it
\* reports stop.
C15_TerminateVerb ==
    /\ [](served.verb = <<"t", "e", "r", "m", "i", "n", "a", "t", "e">>
            => /\ terminated
               /\ served.bytes = TerminationScheduled
                     \o (IF served.closing THEN <<>> ELSE <<EOT>>))
    /\ [][(Returns(mainPid)
             /\ served.verb = <<"t", "e", "r", "m", "i", "n", "a", "t", "e">>)
            => result'[mainPid] = "stop"]_vars

\* terminate was served, no signal was involved, the client has the reply
\* and process() has reported stop.
C15_Witness ==
    /\ served.verb = <<"t", "e", "r", "m", "i", "n", "a", "t", "e">>
    /\ ~thisTerminated[mainPid]
    /\ terminated
    /\ answer.no = served.no
    /\ answer.kind = "lines"
    /\ result[mainPid] = "stop"

(***************************************************************************)
(* Claims about closing the control connection                             *)
(***************************************************************************)

\* C12: after a request that asks to close (verb exit, or `!' before the
\* verb) no further request of the connection is dispatched, not even one
\* that was received behind it, and once the reply is written and its write
\* handler has run the socket is closed.
C12_NoDispatchAfterClose ==
    /\ [][served.closing => served' = served]_vars
    /\ [](served.closing
            => /\ ~readOp
               /\ wq = <<>> => sock = "closed")

\* The server closed the socket after a `!'-command that wrote a reply,
\* with a request received behind it still in its input buffer.
C12_Witness ==
    /\ served.closing
    /\ served.verb # <<"e", "x", "i", "t">>
    /\ served.bytes # <<>>
    /\ sock = "closed"
    /\ Has(input_, NL)

(***************************************************************************)
(* Claims about the --signal management action                             *)
(***************************************************************************)

\* No signal has been delivered to any process.
NothingDelivered ==
    \A p \in PidProc :
       \A s \in {Signal_stop, Signal_logrotate, Signal_stat} : got[p][s] = 0

\* Exactly one signal has been delivered: signal s to process p.
DeliveredOnce(p, s) ==
    \A q \in PidProc :
       \A t \in {Signal_stop, Signal_logrotate, Signal_stat} :
          got[q][t] = (IF q = p /\ t = s THEN 1 ELSE 0)

\* The tool has run sendSignal's generic signal handling to its end.
GenericDone ==
    /\ cpc = "done"
    /\ def.exit = -1
    /\ def.timeout = -1
    /\ def.signo \in {Signal_stop, Signal_logrotate, Signal_stat}

\* C16: `--signal stop' without a timeout, `--signal logrotate' and
\* `--signal stat' exit with 3 when signalling raised an error; else with 0
\* when an instance was running, which has then been sent SIGTERM, SIGHUP
\* or SIGUSR1 exactly once and nothing else has been sent anything; else
\* with 1 when no instance was running, and then nothing has been sent.
C16_GenericSignal ==
    GenericDone =>
       CASE probe1.thrown -> code = 3
         [] probe1.instance = "running" ->
               code = 0 /\ DeliveredOnce(svc, def.signo)
         [] probe1.instance = "none" -> code = 1 /\ NothingDelivered
         [] OTHER -> TRUE

\* The tool has run processStatus to its end.
StatusDone ==
    /\ cpc = "done"
    /\ def.exit = -1
    /\ def.signo = Signal_status

\* C20: `--signal status' delivers no signal to any process and exits with
\* 4 when probing raised an error, else with 3 when the pid file is absent,
\* else with 0 when an instance is running and with 1 when the pid file
\* exists but no instance is running.
C20_Status ==
    StatusDone =>
       /\ NothingDelivered
       /\ CASE probe1.thrown -> code = 4
            [] ~probe1.file -> code = 3
            [] probe1.instance = "running" -> code = 0
            [] probe1.instance = "none" -> code = 1
            [] OTHER -> TRUE

\* C18: `--signal stop/0' ends with the exit code that sendSignal's generic
\* handling, which serves `--signal stop', yields for what pidfile::signal
\* found, after the same single call of pidfile::signal.
C18_StopZeroIsStop ==
    (cpc = "done" /\ sigDef = [signal |-> "stop", timeout |-> "0"])
       => code = genericCode(probe1) /\ probeN.n = 1

\* The tool has run waitForStop to its end.
WaitDone ==
    /\ cpc = "done"
    /\ def.exit = -1
    /\ def.signo = Signal_stop
    /\ def.timeout >= 0

\* The exit codes of `--signal stop/N' that do not depend on how a probe
\* that finds the target gone lies to the deadline: 3 iff the last call of
\* pidfile::signal raised an error; otherwise 1 iff the target was not
\* running at the first probe, and 2 iff the last probe was made at or after
\* the deadline and found the target still running.  No probe is made after
\* the first one at or after the deadline.
WaitCodes ==
    /\ code = 3 <=> probeN.thrown
    /\ ~probeN.thrown =>
          /\ code = 1 <=> probe1.target = 0
          /\ code = 2 <=> probeN.target # 0 /\ probeN.at >= deadline
    /\ probeN.at <= deadline
    /\ probeN.n <= def.timeout * TicksPerSecond + 1

\* The tool found the target running at the first probe and gone at a
\* later one.
FoundGone ==
    /\ probe1.target # 0
    /\ probeN.n > 1
    /\ probeN.target = 0

\* C17 as stated: `--signal stop/N' exits with 1 iff the target is not
\* running at the first probe, with 0 iff it was running at the first probe
\* and is found not running at a later probe made before the deadline, with
\* 2 iff it is still running at a probe made at or after the deadline, and
\* with 3 on a signalling error.
C17_AsStated ==
    WaitDone =>
       /\ WaitCodes
       /\ ~probeN.thrown =>
             (code = 0 <=> FoundGone /\ probeN.at < deadline)

\* C17: `--signal stop/N' exits with 1 iff the target is not running at the
\* first probe, with 0 iff it was running at the first probe and is found
\* not running at a later probe, the last of which is made at the deadline
\* (one poll period after the last check that found time left), with 2 iff
\* it is still running at a probe made at or after the deadline, and with 3
\* on a signalling error.
C17_WaitForStop ==
    WaitDone =>
       /\ WaitCodes
       /\ ~probeN.thrown => (code = 0 <=> FoundGone)

\* The service ended so late that only the probe made at the deadline found
\* it gone.
C17_Witness ==
    /\ WaitDone
    /\ def.timeout > 0
    /\ probe1.instance = "running"
    /\ code = 0
    /\ probeN.at = deadline

\* The tool was run, by a user who may signal the service, against a
\* running service whose run loop ignores the first SIGTERM and stops on
\* the second, and has ended.
IgnoresOne ==
    /\ cpc = "done"
    /\ ignoring = 1
    /\ denied = "none"
    /\ probe1.instance = "running"

\* The service ended within StopLatency poll periods of its run loop's
\* decision to stop.
StopsPromptly == endedAt # -1 /\ endedAt <= stopAt + StopLatency

\* C19 as stated: against such a service `--signal stop/5' exits with 0
\* within 5 seconds and `--signal stop/1' exits with 2.
C19_AsStated ==
    /\ (IgnoresOne /\ sigDef = [signal |-> "stop", timeout |-> "5"])
          => code = 0 /\ now <= 5 * TicksPerSecond
    /\ (IgnoresOne /\ sigDef = [signal |-> "stop", timeout |-> "1"])
          => code = 2

\* C19: against such a service `--signal stop/5' and `--signal stop/1'
\* both send the second SIGTERM one poll period after the first, since
\* every probe sends SIGTERM again; both exit with 0, at most
\* StopLatency + 1 poll periods later, if the service ends within
\* StopLatency poll periods of its decision to stop, and `--signal stop/N'
\* exits with 2 only if the service is still running N seconds after the
\* tool began.
C19_StopOnSecond ==
    (IgnoresOne /\ sigDef \in [signal : {"stop"}, timeout : {"1", "5"}])
       => /\ got[svc][Signal_stop] >= 2
          /\ stopAt = 1
          /\ StopsPromptly => code = 0 /\ now <= stopAt + StopLatency + 1
          /\ code \in {0, 2}
          /\ code = 2 <=> (probeN.instance = "running" /\ probeN.at = deadline)

\* `--signal stop/1' has exited with 0 against such a service.
C19_Witness ==
    /\ IgnoresOne
    /\ sigDef = [signal |-> "stop", timeout |-> "1"]
    /\ code = 0
    /\ StopsPromptly

(***************************************************************************)
(* Claims about the terminator set                                         *)
(***************************************************************************)

\* No pid occupies more than one slot.
NoDuplicates ==
    \A i \in Slot, j \in Slot : (i # j /\ pids[i] # 0) => pids[i] # pids[j]

\* Slot i is the first empty slot.
FirstEmpty(i) == pids[i] = 0 /\ \A j \in Slot : j < i => pids[j] # 0

\* C25: no pid ever occupies more than one slot of the terminator set, and
\* a globalTerminate(true, pid) leaves the set as it is when the pid is in
\* it, else stores the pid in the first empty slot, else (every slot holds
\* another pid) leaves the set as it is and changes nothing else either: no
\* flag, no result, no process ends.
C25_AddIdempotent ==
    /\ [] NoDuplicates
    /\ [][\A p \in SvcProc, arg \in {0} \cup Pids :
             globalTerminate(p, TRUE, arg)
                => LET q == PidOrSelf(arg, p)
                   IN  IF find(q) THEN pids' = pids
                       ELSE IF \E i \in Slot : pids[i] = 0
                         THEN \E i \in Slot :
                                 FirstEmpty(i) /\ pids' = [pids EXCEPT ![i] = q]
                       ELSE /\ pids' = pids
                            /\ UNCHANGED <<terminated, thisTerminated, procs,
                                           ppc, result>>]_vars

\* A pid was to be added to a set whose slots all hold other pids, and is
\* not in the set.
C25_Witness ==
    /\ refused # 0
    /\ ~find(refused)
    /\ \A i \in Slot : pids[i] # 0
    /\ NoDuplicates

(***************************************************************************)
(* Claims about pidfile::signal                                            *)
(***************************************************************************)

\* C26: the latest call of pidfile::signal raised if the file could not be
\* opened for another reason than its absence; else returned 0, or -1 when
\* called with reportMissingPid, if the file was absent; else raised if the
\* content could not be parsed; else returned 0 if no process had the pid
\* (ESRCH); else raised if kill failed; else returned the pid in the file,
\* which kill had reached.
C26_SignalResult ==
    probeN.n > 0 =>
       CASE denied = "open" -> probeN.thrown
         [] ~probeN.file ->
               /\ ~probeN.thrown
               /\ probeN.ret = (IF def.signo = Signal_status THEN -1 ELSE 0)
         [] probeN.pid = NoPid -> probeN.thrown
         [] probeN.target = 0 -> ~probeN.thrown /\ probeN.ret = 0
         [] denied = "kill" -> probeN.thrown
         [] OTHER -> /\ ~probeN.thrown
                     /\ probeN.ret = probeN.pid
                     /\ probeN.ret = probeN.target

\* pidfile::signal with reportMissingPid has returned -1 for a missing file.
C26_Witness ==
    /\ probeN.n > 0
    /\ ~probeN.file
    /\ ~probeN.thrown
    /\ def.signo = Signal_status
    /\ probeN.ret = -1

(***************************************************************************)
(* Claims about stale pid files                                            *)
(***************************************************************************)

\* allocate() of p found an existing file and deemed it stale.
Stale(p) == verdict[p] \in {"unparsable", "own", "unlocked"}

\* allocate() of p has returned or thrown.
Finished(p) == apc[p] \in {"done", "exited", "already", "syserr"}

\* What holds of allocate() on an existing file whatever else runs: it
\* throws AlreadyRunning exactly when the file is parsable, holds another
\* pid than the caller's and the lock is refused; the exception carries the
\* pid read from the file, and no step of such a call touches the path or
\* the content of a file.
AlreadyRunningExactly ==
    /\ [](\A p \in PidProc :
            /\ apc[p] = "already" <=> verdict[p] = "locked"
            /\ apc[p] = "already" => pid[p] \notin {-1, NoPid, p})
    /\ [][\A p \in PidProc :
             (allocate(p) /\ apc'[p] = "already")
                => /\ path' = path /\ content' = content
                   /\ path # NoFile => pid[p] = content[fd[p]]]_vars

\* C30 as stated: an allocate() that deemed the existing file stale has
\* succeeded when it ends.
C30_AsStated ==
    /\ AlreadyRunningExactly
    /\ [](\A p \in PidProc :
            (Stale(p) /\ Finished(p)) => apc[p] \in {"done", "exited"})

\* C30: allocate() on an existing file deems it stale exactly when the
\* lock is taken, or the pid read is the caller's, or the content cannot be
\* parsed, and else throws AlreadyRunning with the pid read, leaving path
\* and content alone; a call that deemed the file stale and that no other
\* allocate() overlapped unlinks the file, creates a new one and succeeds,
\* while one that another call overlapped succeeds or throws a system
\* error.
C30_StaleExactly ==
    /\ AlreadyRunningExactly
    /\ [](\A p \in PidProc :
            (Stale(p) /\ Finished(p))
               => /\ apc[p] \in {"done", "exited", "syserr"}
                  /\ solo[p] => apc[p] \in {"done", "exited"}
                  /\ (solo[p] /\ apc[p] = "done")
                        => /\ path = fd[p]
                           /\ content[path] = p
                           /\ lock[path] = p)

\* One process took the lock of a stale file and owns a new file; the
\* other, started afterwards, was refused with the pid of the first.
C30_Witness ==
    \E p \in Racers, q \in Racers :
       /\ verdict[p] = "unlocked" /\ Owner(p) /\ solo[p]
       /\ verdict[q] = "locked" /\ apc[q] = "already" /\ pid[q] = p

(***************************************************************************)
(* Claims about ScopedPidFile                                              *)
(***************************************************************************)

\* The time, in check periods, from the constructor's call to the latest
\* AlreadyRunning.
Waited == failedAt - began

\* What the constructor does apart from the moment it gives up: it goes on
\* to another round only after AlreadyRunning, returns as soon as an
\* allocate succeeds, leaves with any other exception at once, makes one
\* attempt per check period and therefore ends, and its destructor unlinks
\* the file.
ScopedRounds ==
    /\ [](/\ spc = "sleep" => apc[waiter] = "already"
          /\ spc = "held" => Owner(waiter)
          /\ spc = "error" => apc[waiter] = "syserr"
          /\ spc = "timeout" => apc[waiter] = "already"
          /\ spc \in {"sleep", "timeout"} => tries = Waited + 1
          /\ tries <= (waitTime + 1) * PeriodsPerSecond)
    /\ [][/\ (spc = "trying" /\ apc[waiter] = "done") => spc' # "sleep"
          /\ (spc = "trying" /\ apc[waiter] = "syserr") => spc' # "sleep"
          /\ (spc = "held" /\ spc' = "destroyed") => path' = NoFile]_vars

NonEmpty(s) == Len(s) > 0

ReplyLines(r) == SplitLines(r, <<>>, <<>>)

\* The reply starts with a line that begins with the error prefix.
BeginsWithError(r) == starts_with(ReplyLines(r)[1], ErrorPrefix)

\* The reply has a first line: it holds a newline or an unterminated line.
HasLine(r) == r # <<>>

\* C29: the constructor of the TCP control client sends the component
\* name first, takes the first line of the reply to it as the challenge and
\* sends digest_hex(challenge + ":" + secret) second, each request after the
\* reply to the one before; a user command is only sent after both replies
\* were read and neither began with `error: '; a reply to either step that
\* begins with `error: ' makes the constructor fail with CtrlCommandError.
C29_Handshake ==
    /\ Len(nsent) - Len(nreplies) \in {0, 1}
    /\ Len(nsent) >= 1 => nsent[1] = component
    /\ Len(nsent) >= 2 =>
          /\ ~BeginsWithError(nreplies[1])
          /\ HasLine(nreplies[1]) =>
                nsent[2] = hash_hex(ReplyLines(nreplies[1])[1]
                                       \o <<":">> \o secret)
    /\ Len(nsent) >= 3 =>
          /\ ~BeginsWithError(nreplies[1]) /\ ~BeginsWithError(nreplies[2])
          /\ raised = "none"
    /\ \A i \in 1 .. Min(Len(nreplies), 2) :
          BeginsWithError(nreplies[i]) =>
             /\ npc = "failed"
             /\ raised = "CtrlCommandError"
             /\ Len(nsent) = i
             /\ Len(nreplies) = i

\* A handshake was completed on a two-line reply and a user command sent;
C29_Witness ==
    /\ Len(nsent) = 3
    /\ Len(ReplyLines(nreplies[1])) > 2
    /\ nsent[2] # hash_hex(ReplyLines(nreplies[1])[1] \o secret)
    /\ nsent[3] \in UserCommands

\* The second step was answered with an error line.
C29_Refused ==
    /\ Len(nreplies) = 2
    /\ BeginsWithError(nreplies[2])
    /\ npc = "failed"

(***************************************************************************)
(* C21 - C24: the lifecycle driver                                         *)
(***************************************************************************)

\* The event e is in the history.
Happened(e) == \E i \in 1 .. Len(trace) : trace[i] = e

\* How often e is in the history.
Times(e) == Cardinality({i \in 1 .. Len(trace) : trace[i] = e})

\* Where e is in the history, if it is there once.
At(e) == CHOOSE i \in 1 .. Len(trace) : trace[i] = e

\* operator() is over (it is about to return or the process has ended).
Over == dpc \in {"return", "exited"}

\* The start was refused before start(): by preConfigHook or by
\* pidfile::allocate.
Refused ==
    \/ hook.thrown
    \/ hook.ret # 0
    \/ apc[svc] \in {"already", "syserr"}

\* First half of C21: a service started while a live instance holds the pid
\* file ends with failure and never calls start() or run().
LiveInstanceRefuses ==
    hook.first = "live" =>
       /\ ~Happened("start") /\ ~Happened("run")
       /\ Over /\ exitCode = EXIT_FAILURE

\* C21: a service started while a live instance holds the pid file exits
\* with failure without calling start() or run(); a service started after
\* that instance has stopped is not refused: it allocates the pid file and
\* goes on to start().
C21_SingleInstance ==
    /\ LiveInstanceRefuses
    /\ hook.first = "stopped" => ~Refused

\* What remains of C21 when the pid of the stopped instance has not been
\* given to another process.
C21_UnlessReused ==
    /\ LiveInstanceRefuses
    /\ (hook.first = "stopped" /\ ~reused) => ~Refused

\* A start after the first instance stopped got as far as start().
C21_Restarted ==
    /\ hook.first = "stopped"
    /\ Happened("start")
    /\ Owner(svc)

\* C22: in daemon mode the starter and the intermediate process exit with
\* success only after the daemon has run daemonizeFinish (start() done,
\* notifierFd closed); when the daemon has ended (or never came to be)
\* without it, the starter exits with failure.
C22_StarterVerdict ==
    /\ starterCode = EXIT_SUCCESS => daemonizeFinishRun
    /\ interCode = EXIT_SUCCESS => daemonizeFinishRun
    /\ (starter = "exited" /\ dpc \in {"exited", "none"}
          /\ ~daemonizeFinishRun) => starterCode = EXIT_FAILURE

\* The starter reported success after a completed start-up.
C22_Released ==
    /\ starterCode = EXIT_SUCCESS
    /\ interCode = EXIT_SUCCESS
    /\ daemonizeFinishRun
    /\ dpc = "run"

\* C23: when a termination request (a handled SIGTERM / SIGINT, the control
\* channel's terminate, or stop()) has reached the process by the time
\* start() returns, run() is never called (nor is start-up finished in
\* daemon mode) and operator() returns EXIT_FAILURE.
C23_TerminatedDuringStartup ==
    termAtReturn =>
       /\ ~Happened("run")
       /\ dpc \notin {"finish", "run"}
       /\ ~daemonizeFinishRun
       /\ Over => exitCode = EXIT_FAILURE

\* start() returned after it had handled a SIGTERM, and operator() is over.
C23_Witness ==
    /\ termAtReturn
    /\ mainPid \in termDispatched
    /\ ~stopCalled
    /\ dpc = "exited"
    /\ trace = <<"start", "returned", "cleanup", "stop">>

\* start() returned after the control channel's terminate had been served.
C23_ByControl ==
    /\ termAtReturn
    /\ served.verb = V_terminate
    /\ termDispatched = {}
    /\ ~stopCalled
    /\ dpc = "exited"

\* C24: on every way out of operator() after start() returned its handle,
\* the handle is destroyed exactly once and SignalHandler::stop() runs
\* after that; at no time is the handle destroyed twice or the handling
\* stopped while the handle is held.
C24_CleanupOnce ==
    /\ Times("cleanup") <= 1
    /\ Times("stop") <= 1
    /\ cleanup = "destroyed" <=> Happened("cleanup")
    /\ (Happened("returned") /\ Happened("stop")) =>
          /\ Happened("cleanup")
          /\ At("cleanup") < At("stop")
    /\ (Happened("returned") /\ Over) =>
          /\ Times("cleanup") = 1
          /\ Times("stop") = 1
          /\ handling = "stopped"

\* run() returned an error and operator() is over.
C24_Witness ==
    /\ dpc = "exited"
    /\ exitCode = EXIT_FAILURE
    /\ trace = <<"start", "returned", "run", "cleanup", "stop">>

\* The service was terminated during start-up.
C24_DuringStartup ==
    /\ dpc = "exited"
    /\ trace = <<"start", "returned", "cleanup", "stop">>
    /\ ~termAtReturn

(***************************************************************************)
(* C31: pidfile::signal and the write lock                                 *)
(***************************************************************************)

\* C31: when the pid file exists and no live process holds the write lock on
\* it, a call of pidfile::signal returns 0 without raising and signals
\* nobody: a generic signal run by the tool has then delivered nothing.
C31_NoKillWithoutLock ==
    (/\ GenericDone
     /\ denied = "none"
     /\ probe1.file
     /\ ~probe1.held)
       => /\ ~probe1.thrown
          /\ probe1.ret = 0
          /\ NothingDelivered

\* What holds of C31: with the lock held by the running service the signal
\* reaches the service.
C31_Held ==
    /\ GenericDone
    /\ probe1.held
    /\ probe1.instance = "running"
    /\ DeliveredOnce(svc, def.signo)

(***************************************************************************)
(* C32: failures inside pidfile::allocate                                  *)
(***************************************************************************)

\* C32: when a call of pidfile::allocate that no other call overlaps has
\* raised a system error, its descriptor is closed and the path names what
\* it named before the call: no file the call created has stayed there
\* (unlocked and without a pid), and no file it found has been removed.
C32_NoPartialState ==
    \A p \in Racers :
       (solo[p] /\ apc[p] = "syserr") =>
          /\ fd[p] = NoFile
          /\ path = before[p]

\* What holds of C32: the descriptor is closed, the lock is given up.
C32_HandleClosed ==
    \A p \in Racers :
       apc[p] \in {"syserr", "already"} =>
          /\ fd[p] = NoFile
          /\ \A i \in Inode : lock[i] # p

(***************************************************************************)
(* C33, C34: the event counters and the statistics callback                *)
(***************************************************************************)

\* A call of process() in process p returns in this step.
Processed(p) == ppc[p] = "poll" /\ ppc'[p] = "user"

\* C33: logRotateEvent and statEvent never decrease; in every process the
\* last value seen of either counter never exceeds the counter; and when a
\* process() call of the main process returns, its last values seen equal
\* the two counters.
C33_EventCounters ==
    [][/\ logRotateEvent' >= logRotateEvent
       /\ statEvent' >= statEvent
       /\ \A p \in SvcProc :
             /\ lastLogRotateEvent'[p] <= logRotateEvent'
             /\ lastStatEvent'[p] <= statEvent'
       /\ Processed(mainPid) =>
             /\ lastLogRotateEvent'[mainPid] = logRotateEvent'
             /\ lastStatEvent'[mainPid] = statEvent']_vars

\* The main process has seen both counters change more than once, with a
\* worker forked in between that lags behind.
C33_Witness ==
    /\ ppc[mainPid] = "user"
    /\ workerPid \in procs
    /\ logRotateEvent >= 1
    /\ statEvent >= 2
    /\ lastStatEvent[mainPid] = statEvent
    /\ lastLogRotateEvent[mainPid] = logRotateEvent
    /\ lastStatEvent[workerPid] < statEvent

\* C34: owner_.processStat() is never called in the forked worker, whatever
\* statEvent is; a process() call of the main process calls it once when
\* statEvent differs from the last value seen and not at all otherwise.
C34_StatOnlyInMain ==
    [][/\ processStat'[workerPid] = 0
       /\ Processed(mainPid) =>
             processStat'[mainPid] = processStat[mainPid]
                 + (IF statEvent # lastStatEvent[mainPid] THEN 1 ELSE 0)
       /\ ~Processed(mainPid) => processStat'[mainPid] = processStat[mainPid]]_vars

\* The worker has returned from process() with a statistics request it has
\* not seen, and the main process has served two changes.
C34_Witness ==
    /\ workerPid \in procs
    /\ ppc[workerPid] = "user"
    /\ result[workerPid] = "continue"
    /\ lastStatEvent[workerPid] < statEvent
    /\ processStat[mainPid] = 2
    /\ processStat[workerPid] = 0

(***************************************************************************)
(* C35: the control channel after a fork                                   *)
(***************************************************************************)

\* C35: once the worker is forked its copy of the acceptor is closed with no
\* accept outstanding, and it has neither read bytes of nor answered a
\* request on a connection the main process had established before the
\* fork.
C35_OnlyMainServes ==
    workerPid \in procs =>
       /\ ~ctrl_[workerPid]
       /\ childCon.accept # "outstanding"
       /\ ~childDid.read
       /\ ~childDid.answered

\* What holds of C35: the worker's acceptor is closed and it accepts
\* nothing; a connection made after the fork is the main process's alone.
C35_NoAcceptInChild ==
    workerPid \in procs =>
       /\ ~ctrl_[workerPid]
       /\ childCon.accept # "outstanding"
       /\ childCon.socket = "none" => ~childDid.read /\ ~childDid.answered

\* The main process has accepted and served a connection made after the
\* fork while the worker was polling.
C35_AfterFork ==
    /\ workerPid \in procs
    /\ childCon = NoCon
    /\ ppc[workerPid] = "user" /\ result[workerPid] = "continue"
    /\ served.no = 1

(***************************************************************************)
(* C36: one accept outstanding                                             *)
(***************************************************************************)

\* The connections that have an operation outstanding.
Alive == {c \in Con : con[c] \in {"reading", "both", "writing"}}

\* C36: while the handler is started and the acceptor is open exactly one
\* accept is outstanding after every handler; a step that ends an operation
\* of one connection leaves the other connections and the accept as they
\* were; and a failed accept leaves one accept outstanding.
C36_OneAccept ==
    [][/\ (hstate' = "started" /\ ctrl_'[mainPid]) => accepts' = 1
       /\ \A c \in Con :
             (c \in Alive /\ con'[c] # con[c]) =>
                /\ \A d \in Con \ {c} : con'[d] = con[d]
                /\ accepts' = accepts
       /\ (failures' # failures /\ ctrl_[mainPid]) => accepts' = 1]_vars

\* After a failed accept and after the first connection was dropped on an
\* error, the second client has been accepted and an accept is outstanding.
C36_Witness ==
    /\ hstate = "started"
    /\ failures >= 1
    /\ con[1] = "gone"
    /\ con[2] = "reading"
    /\ accepts = 1

(***************************************************************************)
(* C37: pipelined requests                                                 *)
(***************************************************************************)

\* Sequence s is the beginning of sequence t.
IsPrefix(s, t) == Len(s) <= Len(t) /\ s = Take(t, Len(s))

\* C37: the bytes the server has put on the wire are the beginning of the
\* response blocks of the requests served, in request order: every byte of
\* a block is sent once, none is left out and no block runs into another.
C37_BlocksInOrder ==
    IsPrefix(wire, blocks)

\* What holds of C37: as long as no request was served while a write of an
\* earlier block was outstanding, the wire holds the blocks in order.
C37_WithoutOverlap ==
    ~overlap => IsPrefix(wire, blocks)

\* Two pipelined requests were answered in order, the first block sent
\* whole before the second request was served.
C37_Sequential ==
    /\ ~overlap
    /\ served.no >= 2
    /\ wq = <<>>
    /\ wire = blocks

(***************************************************************************)
(* C40: --signal arguments that do not parse                               *)
(***************************************************************************)

\* The tool has ended after parseSigDef met an unknown signal name or, for
\* stop, a timeout that is not a number.
BadArgDone ==
    /\ cpc = "done"
    /\ def.exit = 3

\* C40: a `--signal' argument with an unknown verb, or `stop/<timeout>'
\* with a timeout that is not a number, ends with exit code 3, no call of
\* pidfile::signal made and no signal delivered.
C40_BadArgExits ==
    BadArgDone =>
       /\ code = 3
       /\ probeN.n = 0
       /\ NothingDelivered

\* `--signal stop/x' has sent SIGTERM to the running service and exited
\* with 0.
C40_StopAnyway ==
    /\ BadArgDone
    /\ sigDef = [signal |-> "stop", timeout |-> "x"]
    /\ probe1.instance = "running"
    /\ DeliveredOnce(svc, Signal_stop)
    /\ code = 0

\* `--signal restart' has probed the running service as `--signal status'
\* does and exited with 0.
C40_StatusAnyway ==
    /\ BadArgDone
    /\ sigDef.signal = "restart"
    /\ probe1.instance = "running"
    /\ probeN.n = 1
    /\ NothingDelivered
    /\ code = 0

(***************************************************************************)
(* C38, C39: the order of startup and immediate exit                       *)
(***************************************************************************)

\* The events of a whole start in the order given, without those the
\* configuration leaves out.
Configured_(order) ==
    SelectSeq(order, LAMBDA e : /\ e = "daemonize" => wanted.daemonize
                                /\ e = "pidfile" => wanted.pidfile)

\* C38 as stated: the events of startup happen in the order daemonization,
\* pid file, persona switch, Signal/Event Core made and pid registered,
\* start(), run().
C38_AsStated ==
    IsPrefix(events, Configured_(<<"daemonize", "pidfile", "persona", "core",
                                   "register", "start", "run">>))

\* C38: the events of startup happen in the order daemonization, pid file,
\* Signal/Event Core made (shared region, control socket), persona switch,
\* pid registered in the terminator set, start(), run().
C38_StartupOrder ==
    IsPrefix(events, Configured_(<<"daemonize", "pidfile", "core", "persona",
                                   "register", "start", "run">>))

\* A daemon with a pid file has come to run().
C38_Witness ==
    /\ step = "inRun"
    /\ wanted.daemonize /\ wanted.pidfile
    /\ Len(events) = 7

\* C39: when a helper has raised immediate_exit, the exception has not
\* left operator(): operator() has returned the code raised, and run() was
\* not called.
C39_ImmediateExit ==
    raisedBy # "none" =>
       /\ step = "returned"
       /\ returns = raisedCode
       /\ \A i \in 1 .. Len(events) : events[i] # "run"

\* What holds of C39: it is so for configuration, preConfigHook and
\* start().
C39_WhereCaught ==
    raisedBy \in {"configuration", "preConfigHook", "start"} =>
       /\ step = "returned"
       /\ returns = raisedCode
       /\ \A i \in 1 .. Len(events) : events[i] # "run"

\* start() has raised immediate_exit in a daemon.
C39_FromStart ==
    /\ raisedBy = "start"
    /\ wanted.daemonize
    /\ returns = MaxExitCode

====
